---------------------------- MODULE Spec2Model ----------------------------
(***************************************************************************)
(* Range-retracement backtesters of chaikit/forex_project.                 *)
(*                                                                         *)
(* The four backtest classes (BacktesterV3_4YearsAdvanced,                 *)
(* BacktesterV3_4YearsMMHalfRisk, BacktesterV3_4YearsEMAReverse,           *)
(* LondonNYBacktester) are modelled as one state machine: `tester' says    *)
(* which class is running, `df' is the bar frame handed to run(), and      *)
(* balance / max_balance / trades are the object's fields.                 *)
(*                                                                         *)
(* Units.  Prices are whole points (1 point = 0.00001), times are whole    *)
(* hours since the Monday 00:00 that starts the data (date = time \div 24, *)
(* hour = time % 24, weekday = date % 7).  Money is whole cents.  An       *)
(* R-multiple `pf' is kept as the integer pf * PfUnit(tester), where       *)
(* PfUnit is twice the stop distance in points, so that every pf the code  *)
(* can compute from point prices is an integer.  risk_percent is kept in   *)
(* tenths of a percent (1.0 -> 10, 0.5 -> 5).  The floating point product  *)
(* balance * (risk_percent / 100) * pf becomes a fixed point product       *)
(* rounded to the cent.                                                    *)
(***************************************************************************)
EXTENDS Integers, Sequences, FiniteSets, TLC

VARIABLES
    tester,        \* which backtest class runs
    df,            \* the bar frame (input of run)
    dd_threshold,  \* run()'s dd_threshold argument, in percent
    balance,       \* self.balance
    max_balance,   \* self.max_balance
    trades,        \* self.trades
    pc,            \* position of run(): "day", "fibo" or "done"
    day_i,         \* index into days (the `for date in days' loop)
    fibo_i,        \* index into fibo_levels (the `for fibo in' loop)
    session,       \* run()'s locals of the current day
    call,          \* the most recent simulate_trade call and what it returned
    run_no,        \* how many times run() was started on this object
    reports,       \* what each finished run handed to LogProcessor
    sizing,        \* a get_lot_size call of a live strategy: arguments, result
    live           \* a live strategy at its terminal: clock, orders, positions

vars == <<tester, df, dd_threshold, balance, max_balance, trades, pc, day_i,
          fibo_i, session, call, run_no, reports, sizing, live>>

-----------------------------------------------------------------------------
(* Program constants *)

initial_balance == 100000
\* Variant of fibo_levels: the deeper level is simulated first.
fibo_levels_deep_first == <<786, 618>>

fibo_levels == <<618, 786>>
start_hour == 12
range_start_hour == 9
min_day_bars == 5
sl_points == 15
tp1_rr == 3
tp2_rr == 6
tp_points == 90
rr_ratio == 6
base_risk == 10
half_risk == 5
london_range_start_hour == 8
london_range_end_hour == 19
london_min_day_bars == 10
london_distance == 200
london_close_hour == 2
atr_period == 14
\* Variant of allowed_weekdays: Thursday is not left out.
allowed_weekdays_with_thursday == {0, 1, 2, 3, 4}

allowed_weekdays == {0, 1, 2, 4}

Testers == {"Advanced", "MMHalfRisk", "EMAReverse", "LondonNY"}

-----------------------------------------------------------------------------
(* Arithmetic helpers *)

Abs(x) == IF x < 0 THEN -x ELSE x

SetMax(S) == CHOOSE x \in S : \A y \in S : y <= x

SetMin(S) == CHOOSE x \in S : \A y \in S : x <= y

\* round(n / d) to the nearest integer, ties to even (d > 0): Python's round
RoundDiv(n, d) ==
    LET q == n \div d
        r == n % d
    IN  IF 2 * r < d THEN q
        ELSE IF 2 * r > d THEN q + 1
        ELSE IF q % 2 = 0 THEN q ELSE q + 1

DateOf(t) == t \div 24

HourOf(t) == t % 24

WeekdayOf(date) == date % 7

\* the stop distance of a tester, in points
StopDist(t) == IF t = "LondonNY" THEN london_distance ELSE sl_points

\* pf values are stored multiplied by PfUnit
PfUnit(t) == 2 * StopDist(t)

-----------------------------------------------------------------------------
(* The frame: df['date'], days, the day's rows and the observation window *)

\* Variant of days: the dates of the frame, the latest first.
days_latest_first ==
    LET D == {DateOf(df[i].time) : i \in DOMAIN df}
        Rank(d) == Cardinality({e \in D : e > d}) + 1
    IN  [k \in 1..Cardinality(D) |-> CHOOSE d \in D : Rank(d) = k]

\* days = df['date'].unique(): the dates of the frame, in order
days ==
    LET D == {DateOf(df[i].time) : i \in DOMAIN df}
        Rank(d) == Cardinality({e \in D : e < d}) + 1
    IN  [k \in 1..Cardinality(D) |-> CHOOSE d \in D : Rank(d) = k]

\* Variant of day_data: only the rows inside the observation window are
\* counted as the day's rows.
day_data_in_window(date) ==
    {i \in DOMAIN df :
        /\ DateOf(df[i].time) = date
        /\ HourOf(df[i].time) >=
             (IF tester = "LondonNY" THEN london_range_start_hour
              ELSE range_start_hour)
        /\ HourOf(df[i].time) <
             (IF tester = "LondonNY" THEN london_range_end_hour
              ELSE start_hour)}

\* day_data = df[df['date'] == date]: the positions of the day's rows
day_data(date) == {i \in DOMAIN df : DateOf(df[i].time) = date}

RangeFromHour(t) ==
    IF t = "LondonNY" THEN london_range_start_hour ELSE range_start_hour

RangeToHour(t) ==
    IF t = "LondonNY" THEN london_range_end_hour ELSE start_hour

MinDayBars(t) == IF t = "LondonNY" THEN london_min_day_bars ELSE min_day_bars

\* range_data: the day's rows with range start <= hour < range end
range_data(date) ==
    {i \in day_data(date) :
        /\ HourOf(df[i].time) >= RangeFromHour(tester)
        /\ HourOf(df[i].time) < RangeToHour(tester)}

\* Series.idxmax(): the first row holding the maximum of `high'
idxmax_high(R) ==
    SetMin({i \in R : \A j \in R : df[j].high <= df[i].high})

\* Series.idxmin(): the first row holding the minimum of `low'
idxmin_low(R) ==
    SetMin({i \in R : \A j \in R : df[i].low <= df[j].low})

\* calculate_atr returns None when fewer than `period' rows precede the row
\* (current_idx is the 0-based position, i - 1 here)
atr_is_none(i) == (i - 1) < atr_period

\* force_close_time: next day 00:00 (4-year testers), next day 02:00 (LondonNY)
force_close_time_of(date) ==
    IF tester = "LondonNY" THEN (date + 1) * 24 + london_close_hour
    ELSE (date + 1) * 24

\* Variant of InDrawdown: the drawdown is measured from the initial balance,
\* not from the peak.
InDrawdownFromStart(bal, peak, th) ==
    (bal - initial_balance) * 100 <= th * initial_balance

\* current_dd <= dd_threshold, for (balance - max_balance) / max_balance and a
\* threshold given in percent
InDrawdown(bal, peak, th) == (bal - peak) * 100 <= th * peak

\* the MM logic: the day's risk_percent.  EMAReverse and LondonNY have no MM
\* logic and use self.risk_percent = 1.0
risk_percent_of(bal, peak, th) ==
    IF tester \in {"Advanced", "MMHalfRisk"}
    THEN IF InDrawdown(bal, peak, th) THEN half_risk ELSE base_risk
    ELSE base_risk

\* Variant of side_of: the first comparison is not strict, so equal timestamps
\* select BUY.
side_of_not_strict(low_time, high_time) ==
    IF low_time <= high_time THEN "BUY"
    ELSE IF high_time < low_time THEN "SELL"
    ELSE "NONE"

\* the side the two timestamps select: BUY, SELL, or no setup
side_of(low_time, high_time) ==
    IF low_time < high_time THEN "BUY"
    ELSE IF high_time < low_time THEN "SELL"
    ELSE "NONE"

NoSession ==
    [side |-> "NONE", high_price |-> 0, low_price |-> 0, start_search_idx |-> 0,
     force_close_time |-> 0, risk_percent |-> 0]

\* The body of `for date in days' up to the side test: the skips (continue) and
\* the locals of a day that is not skipped.
day_setup(date) ==
    LET R == range_data(date)
        weekday_skip ==
            /\ tester # "LondonNY"
            /\ WeekdayOf(date) \notin allowed_weekdays
    IN  IF weekday_skip THEN NoSession
        ELSE IF Cardinality(day_data(date)) < MinDayBars(tester) THEN NoSession
        ELSE IF R = {} THEN NoSession
        ELSE
          LET high_idx == idxmax_high(R)
              low_idx == idxmin_low(R)
              high_price == df[high_idx].high
              low_price == df[low_idx].low
              last_idx == SetMax(R)
          IN  IF high_price - low_price = 0 THEN NoSession
              ELSE IF tester = "LondonNY" /\ atr_is_none(last_idx) THEN NoSession
              ELSE IF last_idx + 1 > Len(df) THEN NoSession
              ELSE [side |-> side_of(df[low_idx].time, df[high_idx].time),
                    high_price |-> high_price,
                    low_price |-> low_price,
                    start_search_idx |-> last_idx + 1,
                    force_close_time |-> force_close_time_of(date),
                    risk_percent |->
                        risk_percent_of(balance, max_balance, dd_threshold)]

\* Variant of entry_of: the price is cut to 5 decimals, not rounded.
entry_of_truncated(side, high_price, low_price, fibo) ==
    IF side = "BUY"
    THEN (high_price * 1000 - (high_price - low_price) * fibo) \div 1000
    ELSE (low_price * 1000 + (high_price - low_price) * fibo) \div 1000

\* entry = round(high_price - price_range * fibo, 5) for BUY,
\*         round(low_price + price_range * fibo, 5) for SELL (fibo in 1/1000)
entry_of(side, high_price, low_price, fibo) ==
    IF side = "BUY"
    THEN RoundDiv(high_price * 1000 - (high_price - low_price) * fibo, 1000)
    ELSE RoundDiv(low_price * 1000 + (high_price - low_price) * fibo, 1000)

\* the target distances of a tester, in points
Tp1Dist(t) == sl_points * tp1_rr

Tp2Dist(t) ==
    IF t = "Advanced" THEN sl_points * tp2_rr
    ELSE IF t = "LondonNY" THEN london_distance \div 2
    ELSE tp_points

\* Variant of candidate: the risk is evaluated again for every fibo level, on
\* the balance the level before it left.
candidate_risk_now(s, fibo) ==
    LET entry == entry_of(s.side, s.high_price, s.low_price, fibo)
        sgn == IF s.side = "BUY" THEN 1 ELSE -1
    IN  [side |-> s.side,
         entry |-> entry,
         sl |-> entry - sgn * StopDist(tester),
         tp1 |-> entry + sgn * Tp1Dist(tester),
         tp2 |-> entry + sgn * Tp2Dist(tester),
         start_idx |-> s.start_search_idx,
         force_close |-> s.force_close_time,
         fibo |-> fibo,
         risk_percent |-> risk_percent_of(balance, max_balance, dd_threshold)]

\* Variant of candidate: the SELL prices are not mirrored, stop and targets
\* lie where a BUY has them.
candidate_not_mirrored(s, fibo) ==
    LET entry == entry_of(s.side, s.high_price, s.low_price, fibo)
    IN  [side |-> s.side,
         entry |-> entry,
         sl |-> entry - StopDist(tester),
         tp1 |-> entry + Tp1Dist(tester),
         tp2 |-> entry + Tp2Dist(tester),
         start_idx |-> s.start_search_idx,
         force_close |-> s.force_close_time,
         fibo |-> fibo,
         risk_percent |-> s.risk_percent]

\* the arguments run() hands to simulate_trade for one fibo level
candidate(s, fibo) ==
    LET entry == entry_of(s.side, s.high_price, s.low_price, fibo)
        sgn == IF s.side = "BUY" THEN 1 ELSE -1
    IN  [side |-> s.side,
         entry |-> entry,
         sl |-> entry - sgn * StopDist(tester),
         tp1 |-> entry + sgn * Tp1Dist(tester),
         tp2 |-> entry + sgn * Tp2Dist(tester),
         start_idx |-> s.start_search_idx,
         force_close |-> s.force_close_time,
         fibo |-> fibo,
         risk_percent |-> s.risk_percent]

-----------------------------------------------------------------------------
(* record_trade *)

\* Variant of ProfitOf: the risk is taken of the initial balance, not of the
\* running balance.
ProfitOfInitial(bal, risk_percent, pf) ==
    (initial_balance * risk_percent * pf) \div (1000 * PfUnit(tester))

\* self.balance * (risk_percent / 100) * pf, to the cent (risk in tenths of a
\* percent, pf in 1/PfUnit)
ProfitOf(bal, risk_percent, pf) ==
    (bal * risk_percent * pf) \div (1000 * PfUnit(tester))

\* Variant of new_max_balance: the peak follows the balance, down as well.
new_max_balance_last(peak, bal) ==
    IF tester \in {"Advanced", "MMHalfRisk"} THEN bal ELSE peak

\* the new peak: `if self.balance > self.max_balance: self.max_balance = ...'
\* (the MM testers only; EMAReverse and LondonNY keep no peak)
new_max_balance(peak, bal) ==
    IF tester \in {"Advanced", "MMHalfRisk"} /\ bal > peak THEN bal ELSE peak

\* record_trade on the account a = [balance, max_balance, trades].  The trade
\* keeps the dict's keys; risk is the "(Risk x%)" suffix of the comment
\* (0: no suffix), setup the fibo level named in the setup string (0: none),
\* and pf the pf argument, which the rows of the ledger do not keep.
\* LondonNYBacktester.record_trade takes no exit time: exit_time |-> -1.
record_trade(a, entry_time, exit_time, side, setup, entry, exit, pf, comment, risk_percent) ==
    LET profit == ProfitOf(a.balance, risk_percent, pf)
        bal == a.balance + profit
    IN  [balance |-> bal,
         max_balance |-> new_max_balance(a.max_balance, bal),
         trades |-> Append(a.trades,
             [entry_time |-> entry_time,
              exit_time |-> IF tester = "LondonNY" THEN -1 ELSE exit_time,
              type |-> side,
              setup |-> IF tester = "EMAReverse" THEN 0 ELSE setup,
              entry |-> entry,
              exit |-> exit,
              profit |-> profit,
              balance |-> bal,
              comment |-> comment,
              risk |-> IF tester \in {"Advanced", "MMHalfRisk"}
                       THEN risk_percent ELSE 0,
              pf |-> pf])]

-----------------------------------------------------------------------------
(* simulate_trade: the scan for the fill *)

\* the entry condition of a row
entry_hit(side, row, entry) ==
    \/ side = "BUY" /\ row.low <= entry
    \/ side = "SELL" /\ row.high >= entry

\* Variant of ema_rejects: the filter follows the trend (BUY above the EMA,
\* SELL below) instead of reversing it.
ema_rejects_with_trend(side, entry, ema_val) ==
    \/ side = "BUY" /\ entry < ema_val
    \/ side = "SELL" /\ entry > ema_val

\* the reverse EMA filter rejects the fill
ema_rejects(side, entry, ema_val) ==
    \/ side = "BUY" /\ entry > ema_val
    \/ side = "SELL" /\ entry < ema_val

\* Variant of fill_scan: no test of force_close, so a row after the cutoff can
\* fill the order.
RECURSIVE fill_scan_no_cutoff(_, _)
fill_scan_no_cutoff(c, i) ==
    IF i > Len(df) THEN 0
    ELSE IF entry_hit(c.side, df[i], c.entry) THEN i
    ELSE fill_scan_no_cutoff(c, i + 1)

\* The outer loop from row i on: 0 when the rows run out or a row at or after
\* force_close comes first (return False / break), else the first row that
\* touches the entry.
RECURSIVE fill_scan(_, _)
fill_scan(c, i) ==
    IF i > Len(df) THEN 0
    ELSE IF df[i].time >= c.force_close THEN 0
    ELSE IF entry_hit(c.side, df[i], c.entry) THEN i
    ELSE fill_scan(c, i + 1)

-----------------------------------------------------------------------------
(* simulate_trade: the scan for the exit *)

\* Variant of mark_to_market: the SELL numerator over the BUY denominator.
mark_to_market_sell_sign(side, p, entry, sl) ==
    IF side = "BUY"
    THEN ((p - entry) * PfUnit(tester)) \div (entry - sl)
    ELSE ((entry - p) * PfUnit(tester)) \div (entry - sl)

\* pf of a close at price p: (p - entry) / (entry - sl) for BUY,
\* (entry - p) / (sl - entry) for SELL
mark_to_market(side, p, entry, sl) ==
    IF side = "BUY"
    THEN ((p - entry) * PfUnit(tester)) \div (entry - sl)
    ELSE ((entry - p) * PfUnit(tester)) \div (sl - entry)

\* the stop condition of a row
sl_hit(side, row, current_sl) ==
    \/ side = "BUY" /\ row.low <= current_sl
    \/ side = "SELL" /\ row.high >= current_sl

\* the target condition of a row (tp1, tp2 or tp)
tp_hit(side, row, tp) ==
    \/ side = "BUY" /\ row.high >= tp
    \/ side = "SELL" /\ row.low <= tp

\* Variant of return_true: the return is missing and the scan goes on.
return_missing(s) == s

\* `return True' after record_trade: the scan ends
return_true(s) == [s EXCEPT !.returned = TRUE]

\* Variant of partial_close: the flag is set, the stop stays where it was.
partial_close_stop_kept(s, c) == [s EXCEPT !.partial_closed = TRUE]

\* `partial_closed = True; current_sl = entry': the stop moves to break even
partial_close(s, c) ==
    [s EXCEPT !.partial_closed = TRUE, !.current_sl = c.entry]

\* the state of the inner loop before its first row
scan_start(a, c) ==
    [acct |-> a, partial_closed |-> FALSE, current_sl |-> c.sl,
     returned |-> FALSE]

\* Variant of force_close_partial_pf: a loss of the remaining half is not
\* counted, as if it had left at break-even.
force_close_partial_pf_floored(pf_rem) ==
    (tp1_rr * PfUnit(tester)) \div 2 + (IF pf_rem < 0 THEN 0 ELSE pf_rem \div 2)

\* total_pf of a force close after the partial: tp1_rr * 0.5 + pf_rem * 0.5
force_close_partial_pf(pf_rem) ==
    (tp1_rr * PfUnit(tester)) \div 2 + pf_rem \div 2

\* total_pf of the break-even stop: tp1_rr * 0.5 + 0.0 * 0.5
breakeven_pf == (tp1_rr * PfUnit(tester)) \div 2 + 0

\* Variant of partial_final_pf: the full tp2_rr, the halves forgotten.
partial_final_pf_full == tp2_rr * PfUnit(tester)

\* total_pf of the final target after the partial: tp1_rr * 0.5 + tp2_rr * 0.5
partial_final_pf ==
    (tp1_rr * PfUnit(tester)) \div 2 + (tp2_rr * PfUnit(tester)) \div 2

\* Variant of stop_pf: the sign is lost.
stop_pf_unsigned == PfUnit(tester)

\* pf of the plain stop
stop_pf == -PfUnit(tester)

\* Variant of final_pf: the partial ratio tp1_rr in place of the final one.
final_pf_partial_ratio == tp1_rr * PfUnit(tester)

\* pf of the target with no partial: tp2_rr (Advanced), rr_ratio (MM, EMA),
\* the literal 1.0 (LondonNY)
final_pf ==
    IF tester = "Advanced" THEN tp2_rr * PfUnit(tester)
    ELSE IF tester = "LondonNY" THEN PfUnit(tester)
    ELSE rr_ratio * PfUnit(tester)

\* Variant of advanced_row: the stop is looked at before the partial target.
advanced_row_stop_first(c, entry_time, t_row, s) ==
    LET rec(exit, pf, comment) ==
            record_trade(s.acct, entry_time, t_row.time, c.side, c.fibo,
                         c.entry, exit, pf, comment, c.risk_percent)
    IN  IF t_row.time >= c.force_close
        THEN LET pf == mark_to_market(c.side, t_row.open, c.entry, c.sl)
             IN  IF s.partial_closed
                 THEN return_true([s EXCEPT !.acct =
                        rec(t_row.open, force_close_partial_pf(pf),
                            "Force Close (Partial Done)")])
                 ELSE return_true([s EXCEPT !.acct =
                        rec(t_row.open, pf, "Force Close")])
        ELSE IF sl_hit(c.side, t_row, s.current_sl)
        THEN IF s.partial_closed
             THEN return_true([s EXCEPT !.acct =
                    rec(s.current_sl, breakeven_pf, "Partial Hit -> BE Hit")])
             ELSE return_true([s EXCEPT !.acct =
                    rec(s.current_sl, stop_pf, "SL")])
        ELSE
          LET s1 == IF ~s.partial_closed /\ tp_hit(c.side, t_row, c.tp1)
                    THEN partial_close(s, c)
                    ELSE s
          IN  IF tp_hit(c.side, t_row, c.tp2)
              THEN IF s1.partial_closed
                   THEN return_true([s1 EXCEPT !.acct =
                          record_trade(s1.acct, entry_time, t_row.time, c.side,
                                       c.fibo, c.entry, c.tp2, partial_final_pf,
                                       "TP1 & TP2 Hit", c.risk_percent)])
                   ELSE return_true([s1 EXCEPT !.acct =
                          record_trade(s1.acct, entry_time, t_row.time, c.side,
                                       c.fibo, c.entry, c.tp2, final_pf,
                                       "Direct TP2 Hit", c.risk_percent)])
              ELSE s1

\* One row of BacktesterV3_4YearsAdvanced.simulate_trade's inner loop.
advanced_row(c, entry_time, t_row, s) ==
    LET rec(exit, pf, comment) ==
            record_trade(s.acct, entry_time, t_row.time, c.side, c.fibo,
                         c.entry, exit, pf, comment, c.risk_percent)
    IN  IF t_row.time >= c.force_close
        THEN LET pf == mark_to_market(c.side, t_row.open, c.entry, c.sl)
             IN  IF s.partial_closed
                 THEN return_true([s EXCEPT !.acct =
                        rec(t_row.open, force_close_partial_pf(pf),
                            "Force Close (Partial Done)")])
                 ELSE return_true([s EXCEPT !.acct =
                        rec(t_row.open, pf, "Force Close")])
        ELSE
          LET s1 == IF ~s.partial_closed /\ tp_hit(c.side, t_row, c.tp1)
                    THEN partial_close(s, c)
                    ELSE s
              rec1(exit, pf, comment) ==
                  record_trade(s1.acct, entry_time, t_row.time, c.side, c.fibo,
                               c.entry, exit, pf, comment, c.risk_percent)
          IN  IF sl_hit(c.side, t_row, s1.current_sl)
              THEN IF s1.partial_closed
                   THEN return_true([s1 EXCEPT !.acct =
                          rec1(s1.current_sl, breakeven_pf,
                               "Partial Hit -> BE Hit")])
                   ELSE return_true([s1 EXCEPT !.acct =
                          rec1(s1.current_sl, stop_pf, "SL")])
              ELSE IF tp_hit(c.side, t_row, c.tp2)
              THEN IF s1.partial_closed
                   THEN return_true([s1 EXCEPT !.acct =
                          rec1(c.tp2, partial_final_pf, "TP1 & TP2 Hit")])
                   ELSE return_true([s1 EXCEPT !.acct =
                          rec1(c.tp2, final_pf, "Direct TP2 Hit")])
              ELSE s1

\* One row of the inner loop of BacktesterV3_4YearsMMHalfRisk.simulate_trade
\* and of BacktesterV3_4YearsEMAReverse.simulate_trade (the same statements).
single_target_row(c, entry_time, t_row, s) ==
    LET rec(exit, pf, comment) ==
            record_trade(s.acct, entry_time, t_row.time, c.side, c.fibo,
                         c.entry, exit, pf, comment, c.risk_percent)
    IN  IF t_row.time >= c.force_close
        THEN return_true([s EXCEPT !.acct =
               rec(t_row.open,
                   mark_to_market(c.side, t_row.open, c.entry, c.sl),
                   "Force Close")])
        ELSE IF sl_hit(c.side, t_row, c.sl)
        THEN return_true([s EXCEPT !.acct = rec(c.sl, stop_pf, "SL")])
        ELSE IF tp_hit(c.side, t_row, c.tp2)
        THEN return_true([s EXCEPT !.acct = rec(c.tp2, final_pf, "TP")])
        ELSE s

\* Variant of exit_row: a row at the cutoff itself is not yet a forced close
\* (`>' for `>=').
exit_row_late_cutoff(c, entry_time, t_row, s) ==
    IF tester = "Advanced"
    THEN advanced_row([c EXCEPT !.force_close = @ + 1], entry_time, t_row, s)
    ELSE single_target_row([c EXCEPT !.force_close = @ + 1], entry_time, t_row, s)

\* the row statements of the running tester
exit_row(c, entry_time, t_row, s) ==
    IF tester = "Advanced" THEN advanced_row(c, entry_time, t_row, s)
    ELSE single_target_row(c, entry_time, t_row, s)

\* Variant of exit_scan: when the rows run out the position is closed at the
\* last row's close.
RECURSIVE exit_scan_close_at_end(_, _, _, _)
exit_scan_close_at_end(c, entry_time, j, s) ==
    IF s.returned THEN s
    ELSE IF j > Len(df)
    THEN return_true([s EXCEPT !.acct =
           record_trade(s.acct, entry_time, df[Len(df)].time, c.side, c.fibo,
                        c.entry, df[Len(df)].close,
                        mark_to_market(c.side, df[Len(df)].close, c.entry, c.sl),
                        "End of History", c.risk_percent)])
    ELSE exit_scan_close_at_end(c, entry_time, j + 1,
                                exit_row(c, entry_time, df[j], s))

\* `for t_row in df.iloc[search_idx_start:]': the rows from j on, until a row
\* returns or the rows run out
RECURSIVE exit_scan(_, _, _, _)
exit_scan(c, entry_time, j, s) ==
    IF j > Len(df) \/ s.returned THEN s
    ELSE exit_scan(c, entry_time, j + 1, exit_row(c, entry_time, df[j], s))

\* Variant of simulate_trade: no order is taken while the balance is below
\* its peak.
simulate_trade_flat_in_drawdown(a, c) ==
    LET i == fill_scan(c, c.start_idx)
    IN  IF i = 0 \/ a.balance < a.max_balance
        THEN [acct |-> a, ret |-> FALSE, fill_idx |-> 0]
        ELSE IF tester = "EMAReverse"
                /\ ema_rejects(c.side, c.entry, df[i].ema200)
        THEN [acct |-> a, ret |-> FALSE, fill_idx |-> i]
        ELSE IF i + 1 > Len(df) THEN [acct |-> a, ret |-> TRUE, fill_idx |-> i]
        ELSE [acct |-> exit_scan(c, df[i].time, i + 1, scan_start(a, c)).acct,
              ret |-> TRUE, fill_idx |-> i]

\* Variant of simulate_trade: the scan for the exit starts at the fill bar.
simulate_trade_from_fill_bar(a, c) ==
    LET i == fill_scan(c, c.start_idx)
    IN  IF i = 0 THEN [acct |-> a, ret |-> FALSE, fill_idx |-> 0]
        ELSE IF tester = "EMAReverse"
                /\ ema_rejects(c.side, c.entry, df[i].ema200)
        THEN [acct |-> a, ret |-> FALSE, fill_idx |-> i]
        ELSE [acct |-> exit_scan(c, df[i].time, i, scan_start(a, c)).acct,
              ret |-> TRUE, fill_idx |-> i]

\* simulate_trade of the three 4-year testers on the account a: the account
\* it leaves and the value it returns.
simulate_trade(a, c) ==
    LET i == fill_scan(c, c.start_idx)
    IN  IF i = 0 THEN [acct |-> a, ret |-> FALSE, fill_idx |-> 0]
        ELSE IF tester = "EMAReverse"
                /\ ema_rejects(c.side, c.entry, df[i].ema200)
        THEN [acct |-> a, ret |-> FALSE, fill_idx |-> i]
        ELSE IF i + 1 > Len(df) THEN [acct |-> a, ret |-> TRUE, fill_idx |-> i]
        ELSE [acct |-> exit_scan(c, df[i].time, i + 1, scan_start(a, c)).acct,
              ret |-> TRUE, fill_idx |-> i]

-----------------------------------------------------------------------------
(* LondonNYBacktester.run: the loops inlined in each fibo level *)

\* One row of the inner loop `for t_idx, t_row in trade_data.iterrows()'.
london_row(c, entry_time, t_row, s) ==
    LET rec(exit, pf, comment) ==
            record_trade(s.acct, entry_time, t_row.time, c.side, c.fibo,
                         c.entry, exit, pf, comment, c.risk_percent)
    IN  IF t_row.time >= c.force_close
        THEN return_true([s EXCEPT !.acct =
               rec(t_row.open,
                   mark_to_market(c.side, t_row.open, c.entry, c.sl),
                   "02:00 Close")])
        ELSE IF sl_hit(c.side, t_row, c.sl)
        THEN return_true([s EXCEPT !.acct = rec(c.sl, stop_pf, "Fibo SL")])
        ELSE IF tp_hit(c.side, t_row, c.tp2)
        THEN return_true([s EXCEPT !.acct = rec(c.tp2, final_pf, "Fibo TP")])
        ELSE s

RECURSIVE london_scan(_, _, _, _)
london_scan(c, entry_time, j, s) ==
    IF j > Len(df) \/ s.returned THEN s
    ELSE london_scan(c, entry_time, j + 1, london_row(c, entry_time, df[j], s))

\* `if not closed and not trade_data.empty': the fallback at the end of history
london_fallback(c, entry_time, i, s) ==
    IF ~s.returned /\ i + 1 <= Len(df)
    THEN LET last_row == df[Len(df)]
         IN  record_trade(s.acct, entry_time, last_row.time, c.side, c.fibo,
                          c.entry, last_row.close,
                          mark_to_market(c.side, last_row.close, c.entry, c.sl),
                          "End of History", c.risk_percent)
    ELSE s.acct

\* The body of `for fibo in self.fibo_levels' of LondonNYBacktester.run; ret
\* says whether the entry was hit.
london_simulate(a, c) ==
    LET i == fill_scan(c, c.start_idx)
    IN  IF i = 0 THEN [acct |-> a, ret |-> FALSE, fill_idx |-> 0]
        ELSE [acct |-> london_fallback(c, df[i].time, i,
                          london_scan(c, df[i].time, i + 1, scan_start(a, c))),
              ret |-> TRUE, fill_idx |-> i]

-----------------------------------------------------------------------------
(* The run() loop as actions *)

account == [balance |-> balance, max_balance |-> max_balance, trades |-> trades]

NoCall ==
    [made |-> FALSE, cand |-> candidate(NoSession, 0), ret |-> FALSE,
     fill_idx |-> 0, before |-> [balance |-> 0, max_balance |-> 0, n |-> 0]]

\* Variant of next_day: `break' in place of `continue', the loop over the
\* days ends.
next_day_break ==
    /\ pc' = "done"
    /\ day_i' = day_i

\* the loop `for date in days' moves on
next_day ==
    IF day_i + 1 > Len(days)
    THEN /\ pc' = "done"
         /\ day_i' = day_i
    ELSE /\ pc' = "day"
         /\ day_i' = day_i + 1

\* One iteration head of `for date in days': a skipped day, a day with no
\* setup, or the locals of the day's fibo loop.
run_day ==
    /\ pc = "day"
    /\ LET s == day_setup(days[day_i])
       IN  IF s.side = "NONE"
           THEN /\ next_day
                /\ session' = NoSession
                /\ fibo_i' = 0
           ELSE /\ pc' = "fibo"
                /\ day_i' = day_i
                /\ session' = s
                /\ fibo_i' = 1
    /\ UNCHANGED <<tester, df, dd_threshold, balance, max_balance, trades, call>>
    /\ UNCHANGED <<run_no, reports, sizing, live>>

\* One iteration of `for fibo in self.fibo_levels': the entry, and
\* simulate_trade with every record_trade it makes.
run_fibo ==
    /\ pc = "fibo"
    /\ LET c == candidate(session, fibo_levels[fibo_i])
           r == IF tester = "LondonNY" THEN london_simulate(account, c)
                ELSE simulate_trade(account, c)
       IN  /\ balance' = r.acct.balance
           /\ max_balance' = r.acct.max_balance
           /\ trades' = r.acct.trades
           /\ call' = [made |-> TRUE, cand |-> c, ret |-> r.ret,
                       fill_idx |-> r.fill_idx,
                       before |-> [balance |-> balance,
                                   max_balance |-> max_balance,
                                   n |-> Len(trades)]]
    /\ IF fibo_i < Len(fibo_levels)
       THEN /\ fibo_i' = fibo_i + 1
            /\ UNCHANGED <<pc, day_i, session>>
       ELSE /\ next_day
            /\ fibo_i' = 0
            /\ session' = NoSession
    /\ UNCHANGED <<tester, df, dd_threshold, run_no, reports, sizing, live>>

-----------------------------------------------------------------------------
(* The frames the model runs on *)

\* number of trading days of the multi-day frames
MaxDays == 3

Bar(t, o, h, l, c, e) ==
    [time |-> t, open |-> o, high |-> h, low |-> l, close |-> c, ema200 |-> e]

\* the 0.618 entry of the window below: bars are placed around it
RefPrice(side) == IF side = "SELL" THEN 110309 ELSE 110191

\* a bar reaching from ref + lo to ref + hi in the trade's direction
\* (mirrored for SELL), opening at ref + op
ShapedBar(side, t, lo, hi, op, e) ==
    IF side = "SELL"
    THEN Bar(t, RefPrice(side) - op, RefPrice(side) - lo, RefPrice(side) - hi,
             RefPrice(side) - hi, e)
    ELSE Bar(t, RefPrice(side) + op, RefPrice(side) + hi, RefPrice(side) + lo,
             RefPrice(side) + hi, e)

PlainBar(t, l, h, e) == Bar(t, l, h, l, h, e)

WindowKinds == {"BUY", "SELL", "EQUAL", "FLAT", "EMPTY"}

\* the two bars that carry the range 1.10000 .. 1.10500 (or no range); h1, h2
\* are their hours
WindowBars(date, w, h1, h2, e) ==
    LET t1 == date * 24 + h1
        t2 == date * 24 + h2
    IN  CASE w = "BUY" ->
               <<PlainBar(t1, 110000, 110200, e), PlainBar(t2, 110300, 110500, e)>>
          [] w = "SELL" ->
               <<PlainBar(t1, 110300, 110500, e), PlainBar(t2, 110000, 110200, e)>>
          [] w = "EQUAL" ->
               <<PlainBar(t1, 110000, 110500, e), PlainBar(t2, 110200, 110300, e)>>
          [] w = "FLAT" ->
               <<PlainBar(t1, 110200, 110200, e), PlainBar(t2, 110200, 110200, e)>>
          [] OTHER ->
               <<PlainBar(t1 - 2, 110000, 110200, e),
                 PlainBar(t2 - 2, 110300, 110500, e)>>

SideOfWindow(w) == IF w = "SELL" THEN "SELL" ELSE "BUY"

\* the shapes of a bar after the window, as <<lo, hi>> around the 0.618 entry
\* for a stop distance sl, partial target distance t1, final target distance t2
PostShape(k, sl, t1, t2) ==
    CASE k = "quiet" -> <<1, 1>>
      [] k = "touch" -> <<0, 1>>
      [] k = "stop" -> <<-sl, 0>>
      [] k = "deep" -> <<-(84 + sl), -sl>>
      [] k = "up1" -> <<1, t1>>
      [] k = "up2" -> <<1, t2>>
      [] k = "span" -> <<-sl, t2>>
      [] OTHER -> <<-sl, t1>>

PostKinds(t) ==
    CASE t = "Advanced" ->
             {"quiet", "touch", "stop", "deep", "up1", "up2", "wide", "span"}
      [] t = "MMHalfRisk" -> {"quiet", "touch", "stop", "deep", "up2"}
      [] OTHER -> {"quiet", "touch", "stop", "up2"}

PostBar(t, side, time, k, e) ==
    LET sh == PostShape(k, StopDist(t), Tp1Dist(t), Tp2Dist(t))
    IN  ShapedBar(side, time, sh[1], sh[2], sh[1], e)

\* the first bar at or after the force close: a bar whose range holds the
\* stop and the targets, a flat bar far below the entry, a flat bar far above
CloseKinds == {"wide", "down", "up"}

ClosingBar(t, side, time, g, e) ==
    CASE g = "wide" ->
             ShapedBar(side, time, -(84 + StopDist(t)), Tp2Dist(t), 30, e)
      [] g = "down" -> ShapedBar(side, time, -99, -99, -99, e)
      [] OTHER -> ShapedBar(side, time, 225, 225, 225, e)

\* the hours of the bars of a day
PostHours(t) == IF t = "LondonNY" THEN <<19, 20, 21>> ELSE <<12, 13, 14>>

\* a day of a 4-year tester: two window bars, the bars after the window (as
\* many as p is long), and, unless g = "none", the next day's first bar
DayBlock(t, date, w, p, g, e) ==
    WindowBars(date, w, 9, 10, e)
    \o [k \in 1..Len(p) |->
          PostBar(t, SideOfWindow(w), date * 24 + PostHours(t)[k], p[k], e)]
    \o (IF g = "none" THEN <<>>
        ELSE <<ClosingBar(t, SideOfWindow(w), (date + 1) * 24, g, e)>>)

\* a LondonNY day: flat bars from hour h0 to 14 around the window bars at 8
\* and 9, the bars after the window, and the bar at 02:00 of the next day
LondonBlock(date, h0, w, p, g) ==
    [k \in 1..(8 - h0) |-> PlainBar(date * 24 + h0 + k - 1, 110250, 110250, 0)]
    \o WindowBars(date, w, 8, 9, 0)
    \o [k \in 1..5 |-> PlainBar(date * 24 + 9 + k, 110250, 110250, 0)]
    \o [k \in 1..Len(p) |->
          PostBar("LondonNY", SideOfWindow(w), date * 24 + PostHours("LondonNY")[k],
                  p[k], 0)]
    \o (IF g = "none" THEN <<>>
        ELSE <<ClosingBar("LondonNY", SideOfWindow(w),
                          (date + 1) * 24 + london_close_hour, g, 0)>>)

\* the values of the ema200 column: below and above every entry
EmaValues(t) == IF t = "EMAReverse" THEN {110000, 110500} ELSE {0}

\* one day in depth: every sequence of three bars after the window
SessionFrames(t) ==
    IF t = "LondonNY"
    THEN {LondonBlock(0, 0, w, p, g) :
              w \in {"BUY", "SELL"}, p \in [1..3 -> PostKinds(t)],
              g \in CloseKinds \cup {"none"}}
         \cup {LondonBlock(0, h0, w, <<"touch", "quiet", "quiet">>, "wide") :
              h0 \in {0, 5}, w \in {"BUY", "SELL", "EQUAL"}}
    ELSE {DayBlock(t, 0, w, p, g, e) :
              w \in {"BUY", "SELL"}, p \in [1..3 -> PostKinds(t)],
              g \in CloseKinds \cup {"none"}, e \in EmaValues(t)}
         \cup {DayBlock(t, 0, w, p, "wide", e) :
              w \in WindowKinds, p \in {<<"touch", "quiet">>, <<"touch", "quiet", "quiet">>},
              e \in EmaValues(t)}

FlatBars(date, h1, h2) ==
    [k \in 1..(h2 - h1 + 1) |-> PlainBar(date * 24 + h1 + k - 1, 110250, 110250, 0)]

SkipKinds == {"FLAT", "EMPTY", "FEW"}

\* a LondonNY day with no session: only flat bars in the window, no bar in
\* the window, or nine bars in the day
LondonSkipDay(date, k) ==
    CASE k = "FLAT" -> FlatBars(date, 0, 14)
      [] k = "EMPTY" -> FlatBars(date, 0, 7) \o FlatBars(date, 19, 23)
      [] OTHER -> FlatBars(date, 0, 5) \o WindowBars(date, "BUY", 8, 9, 0)
                  \o <<PostBar("LondonNY", "BUY", date * 24 + 19, "touch", 0)>>

\* a day with no session (or a session with no setup), then a day that trades
SkipFrames(t) ==
    IF t = "LondonNY"
    THEN {LondonSkipDay(0, k) \o LondonBlock(1, 0, "BUY", <<"touch", "up2", "quiet">>, g) :
              k \in SkipKinds, g \in {"wide", "none"}}
    ELSE {DayBlock(t, 0, w, p, "none", e)
            \o DayBlock(t, 1, "BUY", <<"touch", "up2", "quiet">>, "wide", e) :
              w \in WindowKinds,
              p \in {<<"touch", "quiet">>, <<"touch", "quiet", "quiet">>},
              e \in EmaValues(t)}

\* range widths in points: one point, widths whose retracements fall between
\* two points on either side of the half, and the width of the example
RangeWidths == {1, 3, 7, 125, 333, 500}

\* a day of a 4-year tester whose range is lo .. lo + width: the window's two
\* bars print the low and the high, the bars after the window span the range
RangeDay(t, side, lo, width, e) ==
    (IF side = "BUY"
     THEN <<PlainBar(9, lo, lo, e), PlainBar(10, lo + width, lo + width, e)>>
     ELSE <<PlainBar(9, lo + width, lo + width, e), PlainBar(10, lo, lo, e)>>)
    \o [k \in 1..3 |-> PlainBar(11 + k, lo, lo + width, e)]
    \o <<PlainBar(24, lo, lo + width, e)>>

\* one day each, over several ranges
RangeFrames(t) ==
    IF t = "LondonNY" THEN {}
    ELSE {RangeDay(t, side, lo, w, e) :
              side \in {"BUY", "SELL"}, lo \in {110000, 99999}, w \in RangeWidths,
              e \in EmaValues(t)}

\* a day of the EMA tester whose ema200 column changes after the first bar
\* that touches the 0.618 entry: e1 on that bar and before, e2 after it
EmaDay(side, e1, e2) ==
    WindowBars(0, side, 9, 10, e1)
    \o <<PostBar("EMAReverse", side, 12, "touch", e1),
         PostBar("EMAReverse", side, 13, "touch", e2),
         PostBar("EMAReverse", side, 14, "up2", e2),
         ClosingBar("EMAReverse", side, 24, "wide", e2)>>

\* ema200 below, at and above the 0.618 entry
EmaFrames(t) ==
    IF t # "EMAReverse" THEN {}
    ELSE {EmaDay(side, RefPrice(side) + d1, RefPrice(side) + d2) :
              side \in {"BUY", "SELL"}, d1 \in {-1, 0, 1}, d2 \in {-1, 0, 1}}

\* Wednesday, Thursday and Friday of a 4-year tester, each with a window and
\* a bar that touches the entry (Wednesday's may reach the 0.786 entry too);
\* Wednesday's trade is still open at midnight
WeekFrames(t) ==
    IF t = "LondonNY" THEN {}
    ELSE {DayBlock(t, 2, "BUY", <<k, "quiet", "quiet">>, g, e)
            \o DayBlock(t, 3, w, <<"touch", "up2", "quiet">>, "none", e)
            \o DayBlock(t, 4, "SELL", <<"touch", "up2", "quiet">>, "wide", e) :
              k \in {"touch", "deep"} \cap PostKinds(t),
              g \in {"wide", "none"}, w \in {"BUY", "SELL"}, e \in EmaValues(t)}

\* several days in a row, BUY and SELL windows in turn
RECURSIVE RunFrames(_, _)
RunFrames(t, n) ==
    IF n = 0 THEN {<<>>}
    ELSE {f \o DayBlock(t, n - 1, IF n % 2 = 1 THEN "BUY" ELSE "SELL",
                         <<"quiet", p[1], p[2]>>, g, 0) :
              f \in RunFrames(t, n - 1),
              p \in {<<"quiet", "touch">>, <<"touch", "up2">>}, g \in CloseKinds}

Frames(t) ==
    SessionFrames(t)
    \cup SkipFrames(t)
    \cup RangeFrames(t)
    \cup EmaFrames(t)
    \cup WeekFrames(t)
    \cup (IF t \in {"Advanced", "MMHalfRisk"} THEN RunFrames(t, MaxDays) ELSE {})

\* the dd_threshold the scripts pass to run(), in percent
Thresholds(t) == IF t = "MMHalfRisk" THEN {-5, -10} ELSE {-5}

-----------------------------------------------------------------------------
(* The scripts around run(): the report of a finished run, reset() and the  *)
(* next run over the same frame                                             *)

\* how many times run() is started on one object
MaxRuns == 2

\* the testers that define reset()
HasReset == tester \in {"Advanced", "MMHalfRisk"}

\* the row's 'comment' string as record_trade writes it: the reason alone
\* (EMAReverse, LondonNY) or f"{comment} (Risk {risk_percent}%)"
comment_text(tr) ==
    IF tr.risk = 0 THEN <<tr.comment>>
    ELSE <<tr.comment, " (Risk ", tr.risk, "%)">>

\* df['comment'].str.contains("Close")
contains_close(tr) ==
    tr.comment \in {"Force Close", "Force Close (Partial Done)", "02:00 Close"}

\* df['comment'] == 'TP'
is_won(tr) == comment_text(tr) = <<"TP">>

\* df['comment'] == 'SL'
is_lost(tr) == comment_text(tr) = <<"SL">>

\* LogProcessor.calculate_metrics on a ledger: the counts and the two
\* percentages, in hundredths of a percent (round(x, 2))
calculate_metrics(rows) ==
    IF rows = <<>> THEN [total_orders |-> 0]
    ELSE LET total_orders == Len(rows)
             won_trades == Cardinality({n \in DOMAIN rows : is_won(rows[n])})
             lost_trades == Cardinality({n \in DOMAIN rows : is_lost(rows[n])})
             forced_trades == Cardinality({n \in DOMAIN rows : contains_close(rows[n])})
         IN  [total_orders |-> total_orders,
              won |-> won_trades,
              lost |-> lost_trades,
              win_rate |-> RoundDiv(won_trades * 10000, total_orders),
              forced_pct |-> RoundDiv(forced_trades * 10000, total_orders)]

\* `logger = LogProcessor(tester.trades, ...)' after run() has returned: the
\* ledger of the run is handed over, with the final balance the script prints
report ==
    /\ pc = "done"
    /\ pc' = "reported"
    /\ reports' = Append(reports, [dd_threshold |-> dd_threshold,
                                    trades |-> trades,
                                    balance |-> balance,
                                    metrics |-> calculate_metrics(trades)])
    /\ UNCHANGED <<tester, df, dd_threshold, balance, max_balance, trades,
                   day_i, fibo_i, session, call, run_no, sizing, live>>

\* Variant of reset: the peak is not set back.
reset_keeps_peak ==
    [balance |-> initial_balance, max_balance |-> max_balance, trades |-> <<>>]

\* reset(): the account it leaves
reset ==
    [balance |-> initial_balance, max_balance |-> initial_balance,
     trades |-> <<>>]

\* `tester.reset(); tester.run(data, th, ...)': reset() and the head of the
\* next run() over the same frame
reset_run ==
    /\ pc = "reported"
    /\ HasReset
    /\ run_no < MaxRuns
    /\ balance' = reset.balance
    /\ max_balance' = reset.max_balance
    /\ trades' = reset.trades
    /\ dd_threshold' \in Thresholds(tester)
    /\ run_no' = run_no + 1
    /\ pc' = "day"
    /\ day_i' = 1
    /\ fibo_i' = 0
    /\ session' = NoSession
    /\ call' = NoCall
    /\ UNCHANGED <<tester, df, reports, sizing, live>>

-----------------------------------------------------------------------------
(* get_lot_size of the live strategies.  Money is whole cents, risk_percent  *)
(* tenths of a percent, tick_value cents per point and lot, volumes          *)
(* hundredths of a lot.                                                      *)

Strategies == {"LondonNYReversalStrategy", "LondonNYReversalStrategyV3", "AdvancedSafetyStrategyV3"}

\* the literal 0.01 every early return hands back
default_lot == 1

\* the fixed balance of LondonNYReversalStrategy.get_lot_size
fixed_balance == 100000

\* round(lot_size / step) * step, then max(lot_size, volume_min), with
\* lot_size = risk_amount / (sl_points * tick_value)
sized_lot(bal, risk_percent, sl, tick_value, volume_step, volume_min) ==
    LET lot == RoundDiv(bal * risk_percent, 10 * sl * tick_value * volume_step)
                   * volume_step
    IN  IF lot > volume_min THEN lot ELSE volume_min

\* get_lot_size on the arguments and broker answers a: what it returns.  The
\* method has no raise and no log statement: every path returns a lot size.
get_lot_size(a) ==
    LET bal == IF a.strategy = "LondonNYReversalStrategy" THEN fixed_balance
               ELSE IF a.strategy = "LondonNYReversalStrategyV3"
               THEN a.base_balance
               ELSE a.account_balance
    IN  IF a.strategy = "AdvancedSafetyStrategyV3" /\ ~a.has_account
        THEN [kind |-> "lot", lot |-> default_lot]
        ELSE IF ~a.has_symbol THEN [kind |-> "lot", lot |-> default_lot]
        ELSE IF a.sl_points = 0 \/ a.tick_value = 0
        THEN [kind |-> "lot", lot |-> default_lot]
        ELSE [kind |-> "lot",
              lot |-> sized_lot(bal, a.risk_percent, a.sl_points, a.tick_value,
                                a.volume_step, a.volume_min)]

NoSizing == [state |-> "none"]

\* no live strategy is running
NoLive == [strategy |-> "none"]

\* the arguments and broker answers of a call
SizingInputs ==
    [strategy : Strategies,
     base_balance : {100000},
     account_balance : {100000, 94000},
     has_account : BOOLEAN,
     has_symbol : BOOLEAN,
     risk_percent : {base_risk, half_risk},
     sl_points : {0, sl_points, london_distance},
     tick_value : {0, 100},
     volume_step : {1, 10},
     volume_min : {1}]

\* one call of get_lot_size
size_order ==
    /\ sizing.state = "args"
    /\ sizing' = [state |-> "returned", args |-> sizing.args,
                  result |-> get_lot_size(sizing.args)]
    /\ UNCHANGED <<tester, df, dd_threshold, balance, max_balance, trades, pc,
                   day_i, fibo_i, session, call, run_no, reports, live>>

-----------------------------------------------------------------------------
(* The specification *)

Init ==
    /\ tester \in Testers
    /\ df \in Frames(tester)
    /\ dd_threshold \in Thresholds(tester)
    /\ balance = initial_balance
    /\ max_balance = initial_balance
    /\ trades = <<>>
    /\ pc = "day"
    /\ day_i = 1
    /\ fibo_i = 0
    /\ session = NoSession
    /\ call = NoCall
    /\ run_no = 1
    /\ reports = <<>>
    /\ sizing = NoSizing
    /\ live = NoLive

Next == run_day \/ run_fibo \/ report \/ reset_run

Spec == Init /\ [][Next]_vars

\* the live strategies' position sizing on its own
SizingInit ==
    /\ tester = "Advanced"
    /\ df = <<>>
    /\ dd_threshold = -5
    /\ balance = initial_balance
    /\ max_balance = initial_balance
    /\ trades = <<>>
    /\ pc = "live"
    /\ day_i = 1
    /\ fibo_i = 0
    /\ session = NoSession
    /\ call = NoCall
    /\ run_no = 1
    /\ reports = <<>>
    /\ live = NoLive
    /\ \E a \in SizingInputs : sizing = [state |-> "args", args |-> a]

SizingNext == size_order

SizingSpec == SizingInit /\ [][SizingNext]_vars

-----------------------------------------------------------------------------
(* What a ledger row says about the bars, read off the frame alone.  These  *)
(* are for the 4-year testers, whose rows keep entry_time and exit_time.    *)

FourYear == tester \in {"Advanced", "MMHalfRisk", "EMAReverse"}

BarIndexAt(t) == CHOOSE i \in DOMAIN df : df[i].time = t

TradeFill(tr) == BarIndexAt(tr.entry_time)

TradeExit(tr) == BarIndexAt(tr.exit_time)

\* the session's cutoff: 00:00 after the day of the fill
TradeCutoff(tr) == (DateOf(tr.entry_time) + 1) * 24

Dir(tr) == IF tr.type = "BUY" THEN 1 ELSE -1

\* the final RR the tester is configured with
FinalRR == IF tester = "Advanced" THEN tp2_rr ELSE rr_ratio

TradeStop(tr) == tr.entry - Dir(tr) * sl_points

TradePartialTarget(tr) == tr.entry + Dir(tr) * sl_points * tp1_rr

TradeFinalTarget(tr) == tr.entry + Dir(tr) * sl_points * FinalRR

\* bar i trades at or beyond price p on the winning side
Reaches(tr, i, p) ==
    IF tr.type = "BUY" THEN df[i].high >= p ELSE df[i].low <= p

\* bar i trades at or beyond price p on the losing side
FallsTo(tr, i, p) ==
    IF tr.type = "BUY" THEN df[i].low <= p ELSE df[i].high >= p

\* some bar after the fill bar, up to bar j, reached the partial target
PartialFired(tr, j) ==
    /\ tester = "Advanced"
    /\ \E k \in (TradeFill(tr) + 1)..j : Reaches(tr, k, TradePartialTarget(tr))

\* the first bar at or after time t (0: none)
FirstBarFrom(t) ==
    IF \E i \in DOMAIN df : df[i].time >= t
    THEN SetMin({i \in DOMAIN df : df[i].time >= t})
    ELSE 0

ClosedBeforeCutoff(tr) == FourYear /\ tr.exit_time < TradeCutoff(tr)

StopOnlyExit(tr) ==
    /\ ClosedBeforeCutoff(tr)
    /\ ~PartialFired(tr, TradeExit(tr))
    /\ FallsTo(tr, TradeExit(tr), TradeStop(tr))

BreakEvenExit(tr) ==
    /\ ClosedBeforeCutoff(tr)
    /\ PartialFired(tr, TradeExit(tr))
    /\ FallsTo(tr, TradeExit(tr), tr.entry)

PartialFinalExit(tr) ==
    /\ ClosedBeforeCutoff(tr)
    /\ PartialFired(tr, TradeExit(tr))
    /\ ~FallsTo(tr, TradeExit(tr), tr.entry)
    /\ Reaches(tr, TradeExit(tr), TradeFinalTarget(tr))

DirectFinalExit(tr) ==
    /\ ClosedBeforeCutoff(tr)
    /\ ~PartialFired(tr, TradeExit(tr))
    /\ ~FallsTo(tr, TradeExit(tr), TradeStop(tr))
    /\ Reaches(tr, TradeExit(tr), TradeFinalTarget(tr))

ForcedExit(tr) == FourYear /\ tr.exit_time >= TradeCutoff(tr)

Ledger == {trades[n] : n \in DOMAIN trades}

-----------------------------------------------------------------------------
(* C1 *)

ExitReasons ==
    {"SL", "Partial Hit -> BE Hit", "TP1 & TP2 Hit", "Direct TP2 Hit", "TP",
     "Force Close", "Force Close (Partial Done)"}

\* C1: a step of run() (reset() aside) appends at most one trade to the
\* ledger and keeps the rows already there; without a new row the balance is
\* unchanged, with a new row the balance moved once, by that row's profit,
\* and (simulate_trade of the 4-year testers) the row carries one of the exit
\* reasons: stop, partial + break-even, partial + final, direct final or
\* forced close.
C1_AtMostOneTrade ==
    [][run_no' = run_no =>
        /\ Len(trades') \in {Len(trades), Len(trades) + 1}
        /\ SubSeq(trades', 1, Len(trades)) = trades
        /\ Len(trades') = Len(trades) => balance' = balance
        /\ Len(trades') = Len(trades) + 1 =>
             /\ balance' = balance + trades'[Len(trades')].profit
             /\ trades'[Len(trades')].balance = balance'
             /\ FourYear => trades'[Len(trades')].comment \in ExitReasons]_vars

\* the candidate's trade closed on a bar that is followed, the same day, by
\* another bar touching its stop or its target
C1_Witness ==
    /\ call.made /\ FourYear
    /\ Len(trades) = call.before.n + 1
    /\ LET tr == trades[Len(trades)]
       IN  /\ tr.entry = call.cand.entry
           /\ ClosedBeforeCutoff(tr)
           /\ \E k \in (TradeExit(tr) + 1)..Len(df) :
                /\ df[k].time < TradeCutoff(tr)
                /\ \/ FallsTo(tr, k, TradeStop(tr))
                   \/ Reaches(tr, k, TradeFinalTarget(tr))

-----------------------------------------------------------------------------
(* C2 *)

\* the risk a row was sized with: its "(Risk x%)" suffix, or the tester's
\* fixed 1.0
RowRisk(tr) == IF tr.risk = 0 THEN base_risk ELSE tr.risk

BalanceBefore(n) == IF n = 1 THEN initial_balance ELSE trades[n - 1].balance

\* C2: every row of the ledger has balance = balanceBefore + profit with
\* profit = balanceBefore * (riskPercent / 100) * realizedR, balanceBefore
\* being the balance the row before it left (the initial balance for the
\* first), and the running balance is the last row's balance.
C2_BalanceUpdate ==
    /\ \A n \in DOMAIN trades :
         /\ trades[n].profit =
              (BalanceBefore(n) * RowRisk(trades[n]) * trades[n].pf)
                 \div (1000 * PfUnit(tester))
         /\ trades[n].balance = BalanceBefore(n) + trades[n].profit
    /\ balance = BalanceBefore(Len(trades) + 1)

\* three rows, the last sized at half risk on a balance that is neither
\* the initial balance nor the peak
C2_Witness ==
    /\ Len(trades) >= 3
    /\ trades[Len(trades)].risk = half_risk
    /\ trades[Len(trades)].profit # 0
    /\ BalanceBefore(Len(trades)) # initial_balance
    /\ BalanceBefore(Len(trades)) < max_balance

-----------------------------------------------------------------------------
(* C3 *)

\* C3: a trade closed before the cutoff on a bar that touches the original
\* stop, no bar since the fill having reached the partial target, has
\* realizedR = -1.0 and the original stop as exit price.
C3_StopOnly ==
    \A tr \in Ledger :
        StopOnlyExit(tr) => tr.pf = -PfUnit(tester) /\ tr.exit = TradeStop(tr)

\* a SELL stopped by a bar whose high is exactly the stop
C3_Witness ==
    \E tr \in Ledger :
        /\ StopOnlyExit(tr)
        /\ tr.type = "SELL"
        /\ df[TradeExit(tr)].high = TradeStop(tr)

-----------------------------------------------------------------------------
(* C4 *)

\* C4: in the partial-stage tester, a trade closed before the cutoff on a bar
\* that trades back to the entry price, the partial target having been
\* reached since the fill, has realizedR = 0.5 * tp1RR and the entry price as
\* exit price.
C4_BreakEven ==
    \A tr \in Ledger :
        BreakEvenExit(tr) =>
            2 * tr.pf = tp1_rr * PfUnit(tester) /\ tr.exit = tr.entry

\* the partial target was reached on an earlier bar than the break-even exit
C4_Witness ==
    \E tr \in Ledger :
        /\ BreakEvenExit(tr)
        /\ PartialFired(tr, TradeExit(tr) - 1)
        /\ FallsTo(tr, TradeExit(tr), TradeStop(tr))

-----------------------------------------------------------------------------
(* C5 *)

\* C5: in the partial-stage tester, a trade closed before the cutoff on a bar
\* that reaches the final target and does not trade back to the entry, the
\* partial target having been reached since the fill, has
\* realizedR = 0.5 * tp1RR + 0.5 * tp2RR and the final target as exit price.
C5_PartialFinal ==
    \A tr \in Ledger :
        PartialFinalExit(tr) =>
            /\ 2 * tr.pf = (tp1_rr + tp2_rr) * PfUnit(tester)
            /\ tr.exit = TradeFinalTarget(tr)

\* the partial target on one bar, the final target on a later one
C5_Witness ==
    \E tr \in Ledger :
        /\ PartialFinalExit(tr)
        /\ PartialFired(tr, TradeExit(tr) - 1)
        /\ ~Reaches(tr, TradeExit(tr) - 1, TradeFinalTarget(tr))

-----------------------------------------------------------------------------
(* C6 *)

\* C6: a trade closed before the cutoff on a bar that reaches the final target
\* and not the stop, no bar since the fill having reached a partial target,
\* has realizedR = the configured final RR and the final target as exit price.
C6_DirectFinal ==
    \A tr \in Ledger :
        DirectFinalExit(tr) =>
            tr.pf = FinalRR * PfUnit(tester) /\ tr.exit = TradeFinalTarget(tr)

\* a single-target tester's TP
C6_Witness ==
    \E tr \in Ledger :
        DirectFinalExit(tr) /\ tester = "MMHalfRisk" /\ tr.type = "SELL"

-----------------------------------------------------------------------------
(* C7 *)

\* realizedR of a close at the open of bar i, cleared of the division:
\* pf * (entry - stop) = (open - entry) on the full size, and
\* 0.5 * tp1RR + 0.5 * that after the partial
ForcedPfHolds(tr, i) ==
    LET dist == Dir(tr) * (tr.entry - TradeStop(tr))
        gain == Dir(tr) * (df[i].open - tr.entry)
    IN  IF PartialFired(tr, i - 1)
        THEN 2 * tr.pf * dist = tp1_rr * PfUnit(tester) * dist + gain * PfUnit(tester)
        ELSE tr.pf * dist = gain * PfUnit(tester)

\* C7: a trade of a 4-year tester that is not closed before the cutoff is
\* closed on the first bar at or after the cutoff, at that bar's open, with
\* realizedR = markToMarketR(open), or 0.5 * tp1RR + 0.5 * markToMarketR(open)
\* when the partial target was reached before that bar; and a filled
\* candidate with such a bar in the frame always leaves a trade, closed no
\* later than that bar.
C7_ForcedClose ==
    /\ \A tr \in Ledger :
         ForcedExit(tr) =>
            /\ TradeExit(tr) = FirstBarFrom(TradeCutoff(tr))
            /\ tr.exit = df[TradeExit(tr)].open
            /\ ForcedPfHolds(tr, TradeExit(tr))
    /\ (/\ call.made /\ FourYear /\ call.ret
        /\ call.fill_idx < Len(df)
        /\ FirstBarFrom(call.cand.force_close) # 0) =>
            /\ Len(trades) = call.before.n + 1
            /\ trades[Len(trades)].entry_time = df[call.fill_idx].time
            /\ TradeExit(trades[Len(trades)]) <= FirstBarFrom(call.cand.force_close)

\* a forced close after the partial, on a bar whose range holds the stop and
\* the final target
C7_Witness ==
    \E tr \in Ledger :
        /\ ForcedExit(tr)
        /\ PartialFired(tr, TradeExit(tr) - 1)
        /\ FallsTo(tr, TradeExit(tr), TradeStop(tr))
        /\ Reaches(tr, TradeExit(tr), TradeFinalTarget(tr))
        /\ tr.type = "SELL"

-----------------------------------------------------------------------------
(* C8 *)

\* bar i touches the entry price of candidate c
TouchesEntry(c, i) ==
    IF c.side = "BUY" THEN df[i].low <= c.entry ELSE df[i].high >= c.entry

\* from the order's first bar on, bar j is at or after the cutoff and no bar
\* before it touches the entry
CutoffBeforeFill(c, j) ==
    /\ j \in c.start_idx..Len(df)
    /\ df[j].time >= c.force_close
    /\ \A k \in c.start_idx..(j - 1) : ~TouchesEntry(c, k)

\* C8: when the scan from the order's first bar reaches a bar at or after
\* forceCloseTime before any bar touches the entry, the call records nothing:
\* it reports no fill, and balance, peak and ledger are as before the call.
C8_CancelledOrder ==
    (call.made /\ \E j \in DOMAIN df : CutoffBeforeFill(call.cand, j)) =>
        /\ ~call.ret
        /\ balance = call.before.balance
        /\ max_balance = call.before.max_balance
        /\ Len(trades) = call.before.n

\* a cancelled order whose entry is touched by the bar at the cutoff, the
\* other order of the session having left a row
C8_Witness ==
    /\ call.made
    /\ \E j \in DOMAIN df :
         CutoffBeforeFill(call.cand, j) /\ TouchesEntry(call.cand, j)
    /\ Len(trades) = 1

-----------------------------------------------------------------------------
(* C9 *)

\* the bars of the observation window of a date
Window(date) ==
    {i \in DOMAIN df :
        /\ DateOf(df[i].time) = date
        /\ HourOf(df[i].time) >= RangeFromHour(tester)
        /\ HourOf(df[i].time) < RangeToHour(tester)}

RangeHigh(date) == SetMax({df[i].high : i \in Window(date)})

RangeLow(date) == SetMin({df[i].low : i \in Window(date)})

\* the timestamp of the range high: the first bar that prints it
RangeHighTime(date) ==
    LET W == Window(date)
        H == SetMax({df[i].high : i \in W})
    IN  SetMin({df[i].time : i \in {j \in W : df[j].high = H}})

RangeLowTime(date) ==
    LET W == Window(date)
        L == SetMin({df[i].low : i \in W})
    IN  SetMin({df[i].time : i \in {j \in W : df[j].low = L}})

\* the date of the session a row belongs to: its fill comes before the
\* session's cutoff
SessionDate(tr) ==
    IF tester = "LondonNY" THEN DateOf(tr.entry_time - london_close_hour)
    ELSE DateOf(tr.entry_time)

SideAgrees(side, date) ==
    /\ side = "BUY" => RangeLowTime(date) < RangeHighTime(date)
    /\ side = "SELL" => RangeHighTime(date) < RangeLowTime(date)

\* C9: the candidates of a session are BUY only when rangeLowTime <
\* rangeHighTime and SELL only when rangeHighTime < rangeLowTime, and so is
\* every row of the ledger for its session; a day whose two timestamps are
\* equal has no candidates and no row.
C9_SideSelection ==
    /\ pc = "fibo" =>
         /\ session.side \in {"BUY", "SELL"}
         /\ SideAgrees(session.side, days[day_i])
    /\ call.made => call.cand.side \in {"BUY", "SELL"}
    /\ \A tr \in Ledger :
         /\ tr.type \in {"BUY", "SELL"}
         /\ SideAgrees(tr.type, SessionDate(tr))

\* the run is over a day with enough bars whose window has one bar holding
\* both the range high and the range low, and a later bar of that day at the
\* 0.618 retracement; the ledger is empty
C9_Witness ==
    /\ pc = "done"
    /\ trades = <<>>
    /\ \E date \in {days[k] : k \in DOMAIN days} :
         /\ Cardinality(day_data(date)) >= MinDayBars(tester)
         /\ Window(date) # {}
         /\ RangeHigh(date) > RangeLow(date)
         /\ RangeHighTime(date) = RangeLowTime(date)
         /\ \E i \in day_data(date) :
              /\ \A j \in Window(date) : j < i
              /\ 1000 * df[i].low <=
                   1000 * RangeHigh(date) - 618 * (RangeHigh(date) - RangeLow(date))

-----------------------------------------------------------------------------
(* C10 *)

\* (balance - peak) / peak <= ddThreshold, the threshold in percent
AtOrBelowThreshold == 100 * balance <= (100 + dd_threshold) * max_balance

\* C10: when a day's risk is evaluated (the MM testers), the day gets half
\* the base risk, 0.5 against 1.0, if (balance - peak) / peak <= ddThreshold
\* and the base risk otherwise; in particular it gets the base risk when the
\* balance stands at its peak.
C10_DrawdownGating ==
    [][(pc = "day" /\ pc' = "fibo" /\ tester \in {"Advanced", "MMHalfRisk"}) =>
         /\ AtOrBelowThreshold =>
              session'.risk_percent = 5 /\ 2 * session'.risk_percent = base_risk
         /\ ~AtOrBelowThreshold => session'.risk_percent = 10
         /\ balance = max_balance => session'.risk_percent = base_risk]_vars

\* a day that starts at the base risk with the balance at a new peak, after
\* an earlier day was traded at half risk
C10_Witness ==
    /\ pc = "fibo" /\ fibo_i = 1
    /\ session.risk_percent = base_risk
    /\ balance = max_balance
    /\ max_balance > initial_balance
    /\ \E n \in DOMAIN trades :
         /\ trades[n].risk = half_risk
         /\ trades[n].balance = max_balance

-----------------------------------------------------------------------------
(* C11 *)

Max(a, b) == IF a >= b THEN a ELSE b

\* C11: in the testers that keep a peak, a step that records a trade leaves
\* peakBalance = max(previous peakBalance, new balance); in every state
\* peakBalance >= balance and peakBalance >= initial balance; and no step
\* other than reset() lowers peakBalance.
C11_PeakBalance ==
    [][HasReset =>
         /\ max_balance >= balance /\ max_balance >= initial_balance
         /\ max_balance' >= balance' /\ max_balance' >= initial_balance
         /\ Len(trades') = Len(trades) + 1 =>
              max_balance' = Max(max_balance, balance')
         /\ run_no' = run_no => max_balance' >= max_balance]_vars

\* in a second run, a losing trade has just been recorded below a peak that
\* an earlier trade of this run set
C11_Witness ==
    /\ HasReset /\ run_no = 2
    /\ call.made /\ Len(trades) = call.before.n + 1
    /\ trades[Len(trades)].profit < 0
    /\ max_balance > balance
    /\ max_balance > initial_balance
    /\ max_balance = call.before.max_balance
    /\ \E n \in DOMAIN trades : trades[n].balance = max_balance

-----------------------------------------------------------------------------
(* C12 *)

\* the peak before row n, read off the ledger
PeakBefore(n) ==
    SetMax({initial_balance} \cup {trades[k].balance : k \in 1..(n - 1)})

\* the first row of the session row n belongs to
SessionFirstRow(n) ==
    SetMin({k \in DOMAIN trades :
               SessionDate(trades[k]) = SessionDate(trades[n])})

\* the risk the drawdown rule gives on the balance and peak before row n
RiskBefore(n) ==
    IF 100 * (BalanceBefore(n) - PeakBefore(n)) <= dd_threshold * PeakBefore(n)
    THEN half_risk ELSE base_risk

\* row n left the balance at or below the threshold, and the balance before
\* it was above
CrossesThreshold(n) ==
    /\ RiskBefore(n) = base_risk
    /\ RiskBefore(n + 1) = half_risk

\* C12: in the testers with the drawdown rule, every row carries the risk
\* evaluated on the balance and peak that stood before the first row of its
\* session, so the rows of one session carry the same riskPercent, also when
\* the first of them moved the drawdown across ddThreshold.
C12_RiskOncePerDay ==
    HasReset =>
        \A n \in DOMAIN trades :
            /\ trades[n].risk = RiskBefore(SessionFirstRow(n))
            /\ trades[n].risk = trades[SessionFirstRow(n)].risk

\* the second row of a session carries the base risk although the first row
\* of that session took the balance across the threshold
C12_Witness ==
    /\ HasReset
    /\ \E n \in DOMAIN trades :
         /\ n > 1
         /\ SessionFirstRow(n) = n - 1
         /\ CrossesThreshold(n - 1)
         /\ trades[n].risk = base_risk
         /\ trades[n].profit # 0

-----------------------------------------------------------------------------
(* C13 *)

\* C13: a run started after reset() starts from balance = peak = initial
\* balance and an empty ledger, and two runs over the same bars with the same
\* configuration hand over the same ledger, field for field, and end on the
\* same balance.
C13_Replay ==
    /\ (run_no > 1 /\ pc = "day" /\ day_i = 1) =>
         /\ balance = initial_balance
         /\ max_balance = initial_balance
         /\ trades = <<>>
    /\ \A i, j \in DOMAIN reports :
         reports[i].dd_threshold = reports[j].dd_threshold =>
            /\ reports[i].trades = reports[j].trades
            /\ reports[i].balance = reports[j].balance

\* two finished runs with the same threshold, each with three rows or more,
\* one of them at half risk, the first run having ended above its start
C13_Witness ==
    /\ Len(reports) = 2
    /\ reports[1].dd_threshold = reports[2].dd_threshold
    /\ Len(reports[2].trades) >= 3
    /\ \E n \in DOMAIN reports[2].trades : reports[2].trades[n].risk = half_risk
    /\ reports[1].balance > initial_balance

-----------------------------------------------------------------------------
(* C14 *)

\* bar i fills candidate c: it is the first bar from the order's first bar on
\* that touches the entry, before the cutoff, and the EMA filter lets it pass
Filled(c, i) ==
    /\ i \in c.start_idx..Len(df)
    /\ TouchesEntry(c, i)
    /\ df[i].time < c.force_close
    /\ \A k \in c.start_idx..(i - 1) : ~TouchesEntry(c, k)
    /\ tester = "EMAReverse" =>
         IF c.side = "BUY" THEN c.entry <= df[i].ema200
         ELSE c.entry >= df[i].ema200

CandReaches(c, j, p) ==
    IF c.side = "BUY" THEN df[j].high >= p ELSE df[j].low <= p

CandFallsTo(c, j, p) ==
    IF c.side = "BUY" THEN df[j].low <= p ELSE df[j].high >= p

\* the partial target of c, filled on bar i, was reached by a bar up to j
CandPartial(c, i, j) ==
    /\ tester = "Advanced"
    /\ \E k \in (i + 1)..j : CandReaches(c, k, c.tp1)

\* no bar after the fill bar i closes the position: none is at or after the
\* cutoff, none touches the stop in force, none reaches the final target
NoExitBar(c, i) ==
    \A j \in (i + 1)..Len(df) :
        /\ df[j].time < c.force_close
        /\ ~CandReaches(c, j, c.tp2)
        /\ ~CandFallsTo(c, j, IF CandPartial(c, i, j) THEN c.entry ELSE c.sl)

\* C14: in the three 4-year testers, a candidate that is filled and whose
\* bars run out before a stop, a target or the cutoff closes it leaves no
\* Trade: the call reports the fill, and ledger, balance and peak are as
\* before the call, when the fill bar is the last bar, when the bars after
\* it run out, and when the partial target had been reached.
C14_HistoryExhausted ==
    (/\ call.made /\ FourYear
     /\ \E i \in DOMAIN df : Filled(call.cand, i) /\ NoExitBar(call.cand, i)) =>
        /\ call.ret
        /\ Len(trades) = call.before.n
        /\ balance = call.before.balance
        /\ max_balance = call.before.max_balance

\* the bars run out after the partial target was reached
C14_Witness ==
    /\ call.made /\ FourYear
    /\ \E i \in DOMAIN df :
         /\ Filled(call.cand, i) /\ NoExitBar(call.cand, i)
         /\ i < Len(df)
         /\ CandPartial(call.cand, i, Len(df))

-----------------------------------------------------------------------------
(* C15 *)

\* C15 as stated: the ledger is in the order of the exits, each row's exit
\* time <= the next row's exit time.  (The rows of LondonNY keep no exit
\* time.)
C15_ExitOrder ==
    FourYear =>
        \A n \in 1..(Len(trades) - 1) :
            trades[n].exit_time <= trades[n + 1].exit_time

\* C15, amended: the ledger is in the order of the entries, each row's entry
\* time <= the next row's entry time; the balance a row is sized on is the
\* balance the row before it left.
C15_EntryOrder ==
    \A n \in 1..(Len(trades) - 1) :
        /\ trades[n].entry_time <= trades[n + 1].entry_time
        /\ BalanceBefore(n + 1) = trades[n].balance

\* both candidates of a session filled, and the 0.618 one, simulated and
\* recorded first, is closed on a later bar than the 0.786 one
C15_Witness ==
    \E n \in 1..(Len(trades) - 1) :
        /\ FourYear
        /\ SessionDate(trades[n]) = SessionDate(trades[n + 1])
        /\ trades[n].setup = 618 /\ trades[n + 1].setup = 786
        /\ trades[n].entry_time <= trades[n + 1].entry_time
        /\ trades[n].exit_time > trades[n + 1].exit_time
        /\ trades[n + 1].profit # 0

-----------------------------------------------------------------------------
(* C16 *)

\* C16 as stated: the trade of one fraction does not depend on the other
\* fraction of its session; in particular every row is sized on the balance
\* that stood when its session began, whatever the other fraction did.
C16_IndependentFractions ==
    \A n \in DOMAIN trades :
        trades[n].profit =
            (BalanceBefore(SessionFirstRow(n)) * RowRisk(trades[n]) * trades[n].pf)
                \div (1000 * PfUnit(tester))

-----------------------------------------------------------------------------
(* C17 *)

\* the call reached the sizing step: the broker answered for the account and
\* the symbol
ReachedSizing(a) ==
    /\ a.has_symbol
    /\ a.strategy = "AdvancedSafetyStrategyV3" => a.has_account

\* C17 as stated: a call with sl_points = 0 or tick value = 0 ends in a
\* configuration error, never in a lot size.
C17_ZeroDenominatorSurfaced ==
    (/\ sizing.state = "returned"
     /\ ReachedSizing(sizing.args)
     /\ (sizing.args.sl_points = 0 \/ sizing.args.tick_value = 0)) =>
        sizing.result.kind = "error"

-----------------------------------------------------------------------------
(* C18 *)

\* the observation window of the date holds no bar, or its range is zero
DegenerateWindow(date) ==
    IF Window(date) = {} THEN TRUE ELSE RangeHigh(date) = RangeLow(date)

\* the loop over the days goes on with the next day, or ends after the last
ContinuesWithNextDay ==
    IF day_i < Len(days)
    THEN pc' = "day" /\ day_i' = day_i + 1
    ELSE pc' = "done"

\* C18: when the loop comes to a day whose observation window holds no bar,
\* or whose rangeHigh equals rangeLow, the day is skipped: no candidate is
\* simulated, balance, peak and ledger stay as they are, and the run goes on
\* with the next day.
C18_DegenerateDaySkipped ==
    [][(pc = "day" /\ DegenerateWindow(days[day_i])) =>
         /\ pc' # "fibo"
         /\ call' = call
         /\ trades' = trades
         /\ balance' = balance
         /\ max_balance' = max_balance
         /\ ContinuesWithNextDay]_vars

\* the first day, an allowed weekday with bars enough, had a window with
\* rangeHigh = rangeLow; the second day has left a trade
C18_Witness ==
    /\ Len(days) >= 2
    /\ Cardinality(day_data(days[1])) >= MinDayBars(tester)
    /\ Window(days[1]) # {}
    /\ RangeHigh(days[1]) = RangeLow(days[1])
    /\ Len(trades) >= 1
    /\ \A n \in DOMAIN trades : SessionDate(trades[n]) = days[2]

-----------------------------------------------------------------------------
(* C19 *)

\* the bars of the calendar day
DayBars(date) == {i \in DOMAIN df : DateOf(df[i].time) = date}

\* what a day needs to get a session, read off the frame: an allowed weekday,
\* enough bars in the calendar day, a window that is not empty, a range high
\* and a range low printed at different times, (LondonNY) enough bars before
\* the window's last bar for the ATR, and a bar after the window
SessionExpected(date) ==
    /\ tester # "LondonNY" => WeekdayOf(date) \in allowed_weekdays
    /\ Cardinality(DayBars(date)) >= MinDayBars(tester)
    /\ Window(date) # {}
    /\ RangeHighTime(date) # RangeLowTime(date)
    /\ tester = "LondonNY" => SetMax(Window(date)) - 1 >= atr_period
    /\ SetMax(Window(date)) < Len(df)

-----------------------------------------------------------------------------
(* C20 *)

\* stop < entry < final target for BUY, mirrored for SELL; in the tester
\* with a partial target, that target lies strictly between entry and final
\* target
PricesOrdered(c) ==
    /\ c.side = "BUY" =>
         /\ c.sl < c.entry /\ c.entry < c.tp2
         /\ tester = "Advanced" => c.entry < c.tp1 /\ c.tp1 < c.tp2
    /\ c.side = "SELL" =>
         /\ c.tp2 < c.entry /\ c.entry < c.sl
         /\ tester = "Advanced" => c.tp2 < c.tp1 /\ c.tp1 < c.entry

\* C20: every candidate handed to simulate_trade has, for BUY,
\* stopPrice < entryPrice < partialTargetPrice < finalTargetPrice and, for
\* SELL, finalTargetPrice < partialTargetPrice < entryPrice < stopPrice, the
\* configuration having sl_points > 0 and 0 < tp1RR < tp2RR.
C20_PriceOrdering ==
    /\ sl_points > 0 /\ 0 < tp1_rr /\ tp1_rr < tp2_rr
    /\ call.made =>
         /\ call.cand.side \in {"BUY", "SELL"}
         /\ PricesOrdered(call.cand)
    /\ pc = "fibo" => PricesOrdered(candidate(session, fibo_levels[fibo_i]))

\* a SELL candidate of the partial-target tester, at the deeper level, was
\* filled and left a trade
C20_Witness ==
    /\ call.made /\ tester = "Advanced"
    /\ call.cand.side = "SELL" /\ call.cand.fibo = 786
    /\ call.ret
    /\ Len(trades) = call.before.n + 1

-----------------------------------------------------------------------------
(* C21 *)

\* the exact retracement price of candidate c in thousandths of a point:
\* H - (H - L) * f for BUY, L + (H - L) * f for SELL
ExactEntry(c, H, L) ==
    IF c.side = "BUY" THEN 1000 * H - (H - L) * c.fibo
    ELSE 1000 * L + (H - L) * c.fibo

\* the session of the last call: the day the call's fill scan starts in
CallDate == DateOf(df[call.cand.start_idx].time)

\* C21: the entry of every candidate is H - (H - L) * f for BUY and
\* L + (H - L) * f for SELL, H and L being the range high and low of the
\* session's window, rounded to a whole point (at most half a point from the
\* exact price); it lies inside [L, H]; and H = 1.10500, L = 1.10000 gives the
\* BUY entries 1.10191 for f = 0.618 and 1.10107 for f = 0.786.
C21_EntryPrice ==
    call.made =>
        LET c == call.cand
            H == RangeHigh(CallDate)
            L == RangeLow(CallDate)
        IN  /\ H > L
            /\ Abs(1000 * c.entry - ExactEntry(c, H, L)) <= 500
            /\ L <= c.entry /\ c.entry <= H
            /\ (H = 110500 /\ L = 110000 /\ c.side = "BUY" /\ c.fibo = 618) =>
                 c.entry = 110191
            /\ (H = 110500 /\ L = 110000 /\ c.side = "BUY" /\ c.fibo = 786) =>
                 c.entry = 110107

\* a SELL entry that was rounded up, by more than four tenths of a point
C21_Witness ==
    /\ call.made
    /\ call.cand.side = "SELL"
    /\ 1000 * call.cand.entry - ExactEntry(call.cand, RangeHigh(CallDate), RangeLow(CallDate)) > 400

-----------------------------------------------------------------------------
(* C22 *)

\* the filter lets candidate price p of the side pass on bar i
EmaAllows(side, p, i) ==
    IF side = "BUY" THEN p <= df[i].ema200 ELSE p >= df[i].ema200

\* bar i is the first bar of the order that touches the entry, before the
\* cutoff
FirstTouch(c, i) ==
    /\ i \in c.start_idx..Len(df)
    /\ TouchesEntry(c, i)
    /\ df[i].time < c.force_close
    /\ \A k \in c.start_idx..(i - 1) : ~TouchesEntry(c, k)

-----------------------------------------------------------------------------
(* C23 *)

\* the weekdays the scripts' filter [0, 1, 2, 4] leaves out: Thursday,
\* Saturday and Sunday
LeftOutWeekdays == {3, 5, 6}

\* C23: in the testers run with the allowed-weekday filter, a day whose
\* weekday is not allowed is passed over with no candidate simulated, and
\* every row's entry time lies on a date whose weekday is allowed.
C23_WeekdayFilter ==
    [][FourYear =>
         /\ (pc = "day" /\ WeekdayOf(days[day_i]) \in LeftOutWeekdays) =>
              /\ pc' # "fibo"
              /\ call' = call
              /\ trades' = trades
              /\ balance' = balance
         /\ \A n \in DOMAIN trades' :
              WeekdayOf(DateOf(trades'[n].entry_time)) \notin LeftOutWeekdays]_vars

\* the run is over a Thursday that has bars enough, a window with a setup
\* and a bar at the entry; the ledger has rows entered on Wednesday and on
\* Friday, one of them closed on the Thursday
C23_Witness ==
    /\ FourYear /\ pc = "done"
    /\ \E k \in DOMAIN days :
         /\ WeekdayOf(days[k]) = 3
         /\ Cardinality(DayBars(days[k])) >= MinDayBars(tester)
         /\ RangeHighTime(days[k]) # RangeLowTime(days[k])
         /\ \E i \in DayBars(days[k]) :
              /\ i > SetMax(Window(days[k]))
              /\ \E w \in {"BUY", "SELL"} :
                   df[i].low <= RefPrice(w) /\ RefPrice(w) <= df[i].high
    /\ \E tr \in Ledger : WeekdayOf(DateOf(tr.entry_time)) = 2
                          /\ WeekdayOf(DateOf(tr.exit_time)) = 3
    /\ \E tr \in Ledger : WeekdayOf(DateOf(tr.entry_time)) = 4

-----------------------------------------------------------------------------
(* C24 *)

\* no bar after the fill bar and before bar x reached the partial target
NoPartialBefore(tr, x) == ~PartialFired(tr, x - 1)

\* C24: within one bar after the fill the partial target is looked at first,
\* then the effective stop, then the final target.  A bar before the cutoff
\* that holds both the original stop and the partial target, no partial
\* having been taken before, closes the trade as partial + break-even at
\* 0.5 * tp1_rr, never at -1.0; a bar that holds the entry and the final
\* target after a partial closes it at break-even, not at the final target;
\* a bar that reaches the final target without falling to the entry closes
\* it as partial + final.
C24_InBarOrder ==
    tester = "Advanced" =>
      \A tr \in Ledger :
        ClosedBeforeCutoff(tr) =>
          LET x == TradeExit(tr)
          IN  /\ ( /\ NoPartialBefore(tr, x)
                   /\ Reaches(tr, x, TradePartialTarget(tr))
                   /\ FallsTo(tr, x, TradeStop(tr)) ) =>
                     /\ tr.comment = "Partial Hit -> BE Hit"
                     /\ 2 * tr.pf = tp1_rr * PfUnit(tester)
                     /\ tr.pf # -PfUnit(tester)
                     /\ tr.exit = tr.entry
              /\ ( /\ ~NoPartialBefore(tr, x)
                   /\ FallsTo(tr, x, tr.entry)
                   /\ Reaches(tr, x, TradeFinalTarget(tr)) ) =>
                     /\ tr.comment = "Partial Hit -> BE Hit"
                     /\ tr.exit = tr.entry
              /\ ( /\ Reaches(tr, x, TradeFinalTarget(tr))
                   /\ ~FallsTo(tr, x, tr.entry) ) =>
                     /\ tr.comment = "TP1 & TP2 Hit"
                     /\ tr.exit = TradeFinalTarget(tr)

\* a trade closed before the cutoff on the first bar that reaches its partial
\* target, a bar that also holds its original stop
C24_Witness ==
    /\ tester = "Advanced"
    /\ \E tr \in Ledger :
         /\ ClosedBeforeCutoff(tr)
         /\ NoPartialBefore(tr, TradeExit(tr))
         /\ Reaches(tr, TradeExit(tr), TradePartialTarget(tr))
         /\ FallsTo(tr, TradeExit(tr), TradeStop(tr))
         /\ TradeExit(tr) > TradeFill(tr) + 1

-----------------------------------------------------------------------------
(* C25 *)

\* the first bar after the observation window of the day a row was entered
AfterWindow(tr) == SetMax(Window(DateOf(tr.entry_time))) + 1

\* C25: a row's fill bar is the first bar, from the end of the day's
\* observation window on, whose low <= entry (BUY) or high >= entry (SELL);
\* the row's entry price is the candidate's entry price, whatever the bar's
\* own prices, and its entry time that bar's time; the exit is looked for
\* from the next bar on, so the row's exit time is strictly later than its
\* entry time even when the fill bar holds the stop or a target.
C25_FillBar ==
    FourYear =>
      /\ \A tr \in Ledger :
           LET first == AfterWindow(tr)
               fill == TradeFill(tr)
           IN  /\ Window(DateOf(tr.entry_time)) # {}
               /\ fill >= first
               /\ FallsTo(tr, fill, tr.entry)
               /\ \A k \in first..(fill - 1) : ~FallsTo(tr, k, tr.entry)
               /\ tr.exit_time > tr.entry_time
               /\ TradeExit(tr) > fill
      /\ (call.made /\ Len(trades) = call.before.n + 1) =>
           /\ trades[Len(trades)].entry = call.cand.entry
           /\ trades[Len(trades)].type = call.cand.side

\* a row whose fill bar comes after a bar that does not touch the entry,
\* holds the row's stop and opens away from the entry, the row being closed
\* later for another reason than the stop
C25_Witness ==
    /\ FourYear
    /\ \E tr \in Ledger :
         /\ TradeFill(tr) > AfterWindow(tr)
         /\ FallsTo(tr, TradeFill(tr), TradeStop(tr))
         /\ df[TradeFill(tr)].open # tr.entry
         /\ tr.comment # "SL"
         /\ tr.exit_time > tr.entry_time

-----------------------------------------------------------------------------
(* C26 *)

\* the final target is touched on bar x, before the cutoff, by a trade whose
\* partial target no earlier bar has reached and whose stop bar x leaves alone
JumpToFinal(tr, x) ==
    /\ ClosedBeforeCutoff(tr)
    /\ x = TradeExit(tr)
    /\ NoPartialBefore(tr, x)
    /\ ~FallsTo(tr, x, tr.entry)
    /\ Reaches(tr, x, TradeFinalTarget(tr))

\* C26: the direct final-target exit of the partial-stage simulator is
\* reachable: a trade whose price jumps to the final target, no partial having
\* fired before, is recorded with the reason 'Direct TP2 Hit' and R = tp2_rr.
C26_DirectFinalReachable ==
    tester = "Advanced" =>
      \A tr \in Ledger :
        JumpToFinal(tr, TradeExit(tr)) =>
          /\ tr.comment = "Direct TP2 Hit"
          /\ tr.pf = tp2_rr * PfUnit(tester)

\* what the tester does instead: no row ever carries 'Direct TP2 Hit'; the
\* jump is recorded as partial + final
DirectFinalNeverRecorded ==
    tester = "Advanced" =>
      \A tr \in Ledger :
        /\ tr.comment # "Direct TP2 Hit"
        /\ JumpToFinal(tr, TradeExit(tr)) =>
             /\ tr.comment = "TP1 & TP2 Hit"
             /\ tr.pf = partial_final_pf

JumpRecorded == tester = "Advanced" /\ \E tr \in Ledger : JumpToFinal(tr, TradeExit(tr))

-----------------------------------------------------------------------------
(* C27 *)

\* the cutoff of the session whose order the last call simulated: 00:00 after
\* the day of the window's last bar
SessionCutoff == (DateOf(df[call.cand.start_idx - 1].time) + 1) * 24

ForcedReasons == {"Force Close", "Force Close (Partial Done)"}

\* C27: a row recorded for a session with cutoff forceCloseTime has
\* entryTime < forceCloseTime; closed by stop, break-even or target it has
\* exitTime < forceCloseTime; closed by forced close it has
\* exitTime >= forceCloseTime and its exit bar is the first bar at or after
\* the cutoff, however much later that bar is.
C27_CutoffTimes ==
    FourYear =>
      /\ (call.made /\ Len(trades) = call.before.n + 1) =>
           /\ trades[Len(trades)].entry_time < SessionCutoff
           /\ TradeCutoff(trades[Len(trades)]) = SessionCutoff
      /\ \A tr \in Ledger :
           /\ tr.entry_time < TradeCutoff(tr)
           /\ tr.comment \in ExitReasons
           /\ tr.comment \notin ForcedReasons => tr.exit_time < TradeCutoff(tr)
           /\ tr.comment \in ForcedReasons =>
                /\ tr.exit_time >= TradeCutoff(tr)
                /\ TradeExit(tr) = FirstBarFrom(TradeCutoff(tr))

\* a forced close on a bar hours after the cutoff, the frame having no bar at
\* the cutoff, and that bar's range holds the trade's stop
C27_Witness ==
    /\ FourYear
    /\ \E tr \in Ledger :
         /\ tr.comment \in ForcedReasons
         /\ tr.exit_time >= TradeCutoff(tr) + 9
         /\ FallsTo(tr, TradeExit(tr), TradeStop(tr))

-----------------------------------------------------------------------------
(* C28 *)

\* row m comes from an earlier pass of the loops of run() than row n: an
\* earlier day, or the same day and a smaller fraction (the EMA-reverse
\* tester's rows do not carry the fraction)
EarlierPass(m, n) ==
    \/ SessionDate(trades[m]) < SessionDate(trades[n])
    \/ /\ SessionDate(trades[m]) = SessionDate(trades[n])
       /\ tester # "EMAReverse" => trades[m].setup < trades[n].setup

\* C28: on a frame of strictly increasing bar times, with the fractions
\* configured in ascending order, the ledger is in the order of the single
\* pass by day, then by fraction, and so in the order of the entry times:
\* any row's entryTime is <= the entryTime of every row after it.
C28_LedgerByEntryTime ==
    /\ \A i \in 1..(Len(df) - 1) : df[i].time < df[i + 1].time
    /\ \A k \in 1..(Len(fibo_levels) - 1) : fibo_levels[k] < fibo_levels[k + 1]
    /\ \A m, n \in DOMAIN trades :
         m < n => /\ EarlierPass(m, n)
                  /\ trades[m].entry_time <= trades[n].entry_time

\* a ledger with rows of two days, two of them filled on the same bar of one
\* day and the first of those closed after the second
C28_Witness ==
    /\ Len(trades) >= 3
    /\ \E m, n \in DOMAIN trades :
         /\ m < n
         /\ SessionDate(trades[m]) < SessionDate(trades[n])
         /\ trades[m].exit_time > SessionDate(trades[m]) * 24 + 24
    /\ \E n \in 1..(Len(trades) - 1) :
         /\ SessionDate(trades[n]) = SessionDate(trades[n + 1])
         /\ trades[n].entry_time = trades[n + 1].entry_time

-----------------------------------------------------------------------------
(* C29 *)

\* the fields of a row that are not scaled by the account
Unscaled(tr) ==
    [entry_time |-> tr.entry_time, exit_time |-> tr.exit_time,
     type |-> tr.type, setup |-> tr.setup, entry |-> tr.entry,
     exit |-> tr.exit, comment |-> tr.comment, pf |-> tr.pf]

\* accounts other than the running one: in profit at its peak with no row of
\* another candidate, and in drawdown below a peak after the rows the call
\* found
OtherAccounts ==
    {[balance |-> initial_balance + 4500,
      max_balance |-> initial_balance + 4500, trades |-> <<>>],
     [balance |-> initial_balance - 9900,
      max_balance |-> initial_balance + 4500,
      trades |-> SubSeq(trades, 1, call.before.n)]}

\* the same order at another risk percentage
AtRisk(c, r) == [c EXCEPT !.risk_percent = r]

\* the rows a call of simulate_trade on account a added
Added(a, r) == SubSeq(r.acct.trades, Len(a.trades) + 1, Len(r.acct.trades))

\* C29: whether a candidate fills, and its row's entry time, exit time, exit
\* price, exit reason and realizedR, depend on the bars and the candidate's
\* own prices only: the call just made gives the same on any other balance,
\* peak and risk percentage and after any rows of other candidates, and the
\* runs of one frame under different drawdown thresholds differ in no
\* un-scaled field of any row.
C29_UnscaledOutcome ==
    /\ (call.made /\ FourYear) =>
         \A a \in OtherAccounts :
           LET r == IF a.trades = <<>> THEN half_risk ELSE base_risk
               alt == simulate_trade(a, AtRisk(call.cand, r))
               new == SubSeq(trades, call.before.n + 1, Len(trades))
           IN  /\ alt.ret = call.ret
               /\ alt.fill_idx = call.fill_idx
               /\ Len(Added(a, alt)) = Len(new)
               /\ \A n \in DOMAIN new :
                    Unscaled(Added(a, alt)[n]) = Unscaled(new[n])
    /\ \A i, j \in DOMAIN reports :
         /\ Len(reports[i].trades) = Len(reports[j].trades)
         /\ \A n \in DOMAIN reports[i].trades :
              Unscaled(reports[i].trades[n]) = Unscaled(reports[j].trades[n])

\* the second run of a frame, under another threshold than the first: the
\* call just made, with the balance below its peak, left a row that the two
\* runs sized at different risk percentages and with different profits
C29_Witness ==
    /\ Len(reports) = 1 /\ run_no = 2
    /\ reports[1].dd_threshold # dd_threshold
    /\ call.made /\ call.before.balance < call.before.max_balance
    /\ Len(trades) = call.before.n + 1
    /\ trades[Len(trades)].risk # reports[1].trades[Len(trades)].risk
    /\ trades[Len(trades)].profit # reports[1].trades[Len(trades)].profit
    /\ trades[Len(trades)].balance # reports[1].trades[Len(trades)].balance

-----------------------------------------------------------------------------
(* C30 *)

\* the exit reasons of a trade whose partial stage fired
PartialReasons ==
    {"Partial Hit -> BE Hit", "TP1 & TP2 Hit", "Force Close (Partial Done)"}

\* pf is the row's gain in multiples of the tester's stop distance
GainInStops(tr) ==
    tr.pf * StopDist(tester) = Dir(tr) * (tr.exit - tr.entry) * PfUnit(tester)

\* C30: every row closed without a partial stage has
\* realizedR = (exit - entry) / (entry - stop) (mirrored for SELL), for stop,
\* target and forced-close exits, in every backtester, LondonNY with its
\* target at half the stop distance included.
C30_RealizedRIsGainInStops ==
    \A tr \in Ledger : tr.comment \notin PartialReasons => GainInStops(tr)

\* what holds instead: the rows other than LondonNY's target rows
GainInStopsButLondonTarget ==
    \A tr \in Ledger :
        tr.comment \notin PartialReasons =>
            IF tester = "LondonNY" /\ tr.comment = "Fibo TP"
            THEN /\ tr.pf = PfUnit(tester)
                 /\ 2 * Dir(tr) * (tr.exit - tr.entry) = StopDist(tester)
            ELSE GainInStops(tr)

-----------------------------------------------------------------------------
(* C31 *)

LondonReasons == {"Fibo SL", "Fibo TP", "02:00 Close", "End of History"}

\* the last call filled its order and left one row, with a reason of
\* LondonNYBacktester; an 'End of History' row is at the frame's last close
OneLondonRow ==
    /\ Len(trades) = call.before.n + 1
    /\ trades[Len(trades)].comment \in LondonReasons
    /\ trades[Len(trades)].entry_time = df[call.fill_idx].time
    /\ trades[Len(trades)].comment = "End of History" =>
         trades[Len(trades)].exit = df[Len(df)].close

\* C31: in LondonNYBacktester every filled order leaves exactly one row (SL,
\* TP, '02:00 Close' or, the history ending with the position open, 'End of
\* History' at the last available close); no filled order is dropped, a fill
\* on the last bar of the data included.
C31_FilledOrderRecorded ==
    (tester = "LondonNY" /\ call.made /\ call.ret) => OneLondonRow

\* what holds instead: a fill with a bar after it leaves one row, a fill on
\* the last bar of the frame leaves none
FilledOrderRecordedButLastBar ==
    (tester = "LondonNY" /\ call.made /\ call.ret) =>
        IF call.fill_idx < Len(df) THEN OneLondonRow
        ELSE Len(trades) = call.before.n /\ balance = call.before.balance

-----------------------------------------------------------------------------
(* C32 *)

\* a row from row m on, before the session of row n began, left the balance
\* at or above the peak that stood before it
NewPeakBetween(m, n) ==
    \E k \in m..(SessionFirstRow(n) - 1) : trades[k].balance >= PeakBefore(k)

\* C32: half-risk mode resets at a new high: after a day traded at 0.5
\* because the drawdown had reached the threshold, a later day is traded at
\* 1.0 only if the balance has set a new peak in between; the risk does not
\* return to 1.0 because the drawdown is shallower than the threshold again.
C32_HalfRiskUntilNewPeak ==
    HasReset =>
        \A m, n \in DOMAIN trades :
            ( /\ m < n
              /\ SessionDate(trades[m]) < SessionDate(trades[n])
              /\ trades[m].risk = half_risk
              /\ trades[n].risk = base_risk ) => NewPeakBetween(m, n)

-----------------------------------------------------------------------------
(* C33 *)

\* realizedR >= 0.5 * tp1_rr
AtLeastPartialGain(tr) == 2 * tr.pf >= tp1_rr * PfUnit(tester)

\* C33 as stated: every trade whose partial fired is recorded with
\* realizedR >= 0.5 * tp1_rr, whatever its exit: break-even stop, final
\* target or forced close.
C33_NoDownsideAfterPartial ==
    tester = "Advanced" =>
        \A tr \in Ledger : tr.comment \in PartialReasons => AtLeastPartialGain(tr)

\* C33, amended: a trade whose partial fired and that leaves on the
\* break-even stop or on the final target has realizedR >= 0.5 * tp1_rr; one
\* that is force-closed has realizedR >= 0.5 * tp1_rr exactly when the bar of
\* the forced close opens at the entry or on its winning side, and less when
\* that bar opens beyond the entry.
C33_DownsideOnlyAtForcedClose ==
    tester = "Advanced" =>
        \A tr \in Ledger :
            /\ tr.comment \in {"Partial Hit -> BE Hit", "TP1 & TP2 Hit"} =>
                 AtLeastPartialGain(tr)
            /\ tr.comment = "Force Close (Partial Done)" =>
                 /\ tr.exit = df[TradeExit(tr)].open
                 /\ AtLeastPartialGain(tr) <=> Dir(tr) * (tr.exit - tr.entry) >= 0

\* a trade whose partial fired, force-closed on a bar that opens beyond its
\* original stop, with a negative realizedR; no bar between the partial and
\* the forced close trades back to the entry
C33_Witness ==
    /\ tester = "Advanced"
    /\ \E tr \in Ledger :
         /\ tr.comment = "Force Close (Partial Done)"
         /\ PartialFired(tr, TradeExit(tr) - 1)
         /\ Dir(tr) * (tr.exit - TradeStop(tr)) < 0
         /\ tr.pf < 0

-----------------------------------------------------------------------------
(* C39 *)

\* the rows of a reported ledger that closed, before the cutoff, at the
\* final target of their order
TargetExits(rows) ==
    {n \in DOMAIN rows :
        /\ ClosedBeforeCutoff(rows[n])
        /\ rows[n].exit = TradeFinalTarget(rows[n])}

\* the rows of a reported ledger that closed, before the cutoff, at the stop
\* their order was placed with
StopExits(rows) ==
    {n \in DOMAIN rows :
        /\ ClosedBeforeCutoff(rows[n])
        /\ rows[n].exit = TradeStop(rows[n])}

\* C39: for the ledger of any 4-year tester, calculate_metrics reports
\* 'WinRate (%)' = 100 * (rows that exited at take-profit) / (total rows) and
\* counts as lost the rows that exited at the stop, the ledgers whose
\* comments carry the risk suffix or partial-stage reasons included.
C39_WinRate ==
    FourYear =>
        \A i \in DOMAIN reports :
            LET rows == reports[i].trades
                m == reports[i].metrics
            IN  rows # <<>> =>
                  /\ m.total_orders = Len(rows)
                  /\ m.win_rate =
                       RoundDiv(10000 * Cardinality(TargetExits(rows)), Len(rows))
                  /\ m.lost = Cardinality(StopExits(rows))

\* what holds instead: the figures are right for the tester whose comments
\* are the bare reasons, and zero for the testers that add the risk suffix
WinRateByTester ==
    FourYear =>
        \A i \in DOMAIN reports :
            LET rows == reports[i].trades
                m == reports[i].metrics
            IN  rows # <<>> =>
                  IF tester = "EMAReverse"
                  THEN /\ m.win_rate =
                            RoundDiv(10000 * Cardinality(TargetExits(rows)), Len(rows))
                       /\ m.lost = Cardinality(StopExits(rows))
                  ELSE m.win_rate = 0 /\ m.lost = 0

\* a reported EMA-reverse ledger with a take-profit row and another row
EmaReverseReported ==
    /\ tester = "EMAReverse"
    /\ \E i \in DOMAIN reports :
         /\ TargetExits(reports[i].trades) # {}
         /\ Len(reports[i].trades) >= 2

-----------------------------------------------------------------------------
(* The live strategies at their terminal.  A script is polled: by its own   *)
(* `while True' loop (trade_setup_v3_Advanced_Safety, trade_setup_v4) or by *)
(* whatever runs the script (trade_setup, trade_setup_v2, trade_setup_v3,   *)
(* whose __main__ calls run_strategy once).  The clock is a weekday         *)
(* (Monday = 0) and a half minute of the day, the broker holds the pending  *)
(* orders and the open positions of the script's magic number.  Volumes are *)
(* hundredths of a lot, balances cents, risk tenths of a percent.           *)

LiveScripts == {"trade_setup", "trade_setup_v2", "trade_setup_v3", "trade_setup_v3_Advanced_Safety", "trade_setup_v4"}

\* the scripts with a `while True' loop and a manage_orders
PollingScripts == {"trade_setup_v3_Advanced_Safety", "trade_setup_v4"}

\* sleep(30) of the main loop is one step of the clock
HalfMinutesPerDay == 2880

\* the instants of a day at which a poll can happen: around midnight, around
\* 12:00 and 13:00, and one in the evening
PollSlots == {0, 1, 2, 1440, 1441, 1442, 1443, 1560, 1561, 2160}

\* now.hour and now.minute
hour_of(slot) == slot \div 120
minute_of(slot) == (slot % 120) \div 2

\* self.start_hour
live_start_hour(script) == IF script \in {"trade_setup", "trade_setup_v2"} THEN 13 ELSE 12

\* the hour run_strategy compares with at its force close: self.close_hour,
\* but the literal 0 in trade_setup_v3
live_close_hour(script) == IF script \in {"trade_setup", "trade_setup_v2"} THEN 24 ELSE 0

\* the weekdays on which the script returns at once
skipped_weekdays(script) ==
    IF script = "trade_setup_v3" THEN {3}
    ELSE IF script = "trade_setup_v3_Advanced_Safety" THEN (0..6) \ allowed_weekdays
    ELSE {}

\* get_drawdown_risk of trade_setup_v3_Advanced_Safety: max_balance is
\* self.initial_balance and dd_threshold -0.05
get_drawdown_risk_v3(current_balance) ==
    IF current_balance * 100 < initial_balance * (100 - 5) THEN half_risk ELSE base_risk

\* get_drawdown_risk of trade_setup_v4: below max_balance * 0.95
get_drawdown_risk_v4(current_balance) ==
    IF current_balance * 100 < initial_balance * 95 THEN half_risk ELSE base_risk

get_drawdown_risk(script, current_balance) ==
    IF script = "trade_setup_v3_Advanced_Safety" THEN get_drawdown_risk_v3(current_balance)
    ELSE IF script = "trade_setup_v4" THEN get_drawdown_risk_v4(current_balance)
    ELSE base_risk

\* the volume get_lot_size gives the day's orders: half the lots at half risk
live_lot(risk) == IF risk = half_risk THEN 2 ELSE 4

\* the comment place_limit / send_order gives an order, without the level
order_comment(script) ==
    CASE script = "trade_setup" -> "Fibo"
      [] script = "trade_setup_v2" -> "Fibo (ADX Filtered)"
      [] script = "trade_setup_v3" -> "v3.0 Fibo"
      [] script = "trade_setup_v3_Advanced_Safety" -> "v3 Adv"
      [] OTHER -> "v4 Dual"

\* the comment of the deal that closes half a position
partial_comment == "Partial RR3"

\* "Partial" in comment
contains_Partial(comment) == comment = partial_comment

\* round(partial_vol / step) * step for half of a volume in steps: Python
\* rounds a half to the even neighbour
round_half_volume(volume) ==
    IF volume % 2 = 0 THEN volume \div 2
    ELSE IF ((volume - 1) \div 2) % 2 = 0 THEN (volume - 1) \div 2 ELSE (volume + 1) \div 2

\* partial_vol of manage_orders; trade_setup_v3_Advanced_Safety raises it to
\* volume_min
partial_volume(script, volume) ==
    IF script = "trade_setup_v3_Advanced_Safety"
    THEN Max(round_half_volume(volume), 1)
    ELSE round_half_volume(volume)

\* at most this many positions are open at once
MaxPositions == 1

\* the account balances get_account_status can answer with
LiveBalances == {100000, 95000, 94999}

\* what the terminal answers during one poll: the side of the day's range
\* ("NONE": neither extreme is the earlier one, "NODATA": copy_rates_range
\* gave nothing to work on), how many fibo levels the price has passed
\* already, the account balance, the positions whose price is three stops or
\* more from the entry, and whether the broker accepts the closing deal and
\* the change of the stop
SetupInputs == [side : {"BUY", "SELL", "NONE", "NODATA"}, passed : 0..2, account_balance : LiveBalances]
ManageInputs == [reached : SUBSET (1..MaxPositions), deal_ok : BOOLEAN, sltp_ok : BOOLEAN]
NoSetupInput == [side |-> "NODATA", passed |-> 0, account_balance |-> initial_balance]
NoManageInput == [reached |-> {}, deal_ok |-> FALSE, sltp_ok |-> FALSE]

\* nothing sent yet today
NoneSent == [f \in {618, 786} |-> 0]

\* the levels an order is sent for: `for fibo in self.fibo_levels' with the
\* tick filter, which trade_setup_v4 does not have
placed_levels(script, inp) ==
    IF inp.side \notin {"BUY", "SELL"} THEN {}
    ELSE IF script = "trade_setup_v4" THEN {fibo_levels[i] : i \in 1..2}
    ELSE {fibo_levels[i] : i \in (inp.passed + 1)..2}

\* cancel_pending_orders / cancel_all_pendings, then close_all_positions
force_close(l) == [l EXCEPT !.orders = {}, !.positions = <<>>]

\* the daily setup from cancel_all_pendings to the last place_limit
daily_setup(l, inp) ==
    IF inp.side = "NODATA" THEN [l EXCEPT !.orders = {}]
    ELSE LET risk == get_drawdown_risk(l.strategy, inp.account_balance)
             placed == placed_levels(l.strategy, inp)
         IN [l EXCEPT !.orders = {[fibo |-> f, day |-> l.weekday, volume |-> live_lot(risk), comment |-> order_comment(l.strategy)] : f \in placed},
                      !.sent = [f \in {618, 786} |-> IF f \in placed THEN l.sent[f] + 1 ELSE l.sent[f]],
                      !.sized = IF l.strategy \in PollingScripts THEN [made |-> TRUE, balance |-> inp.account_balance, risk |-> risk] ELSE l.sized]

\* one turn of `for pos in positions' in manage_orders: what is left of the
\* position, and whether the turn raised ZeroDivisionError
manage_position(script, pos, at_rr3, inp) ==
    IF pos.sl_at_entry
    THEN [left |-> <<pos>>, raised |-> script = "trade_setup_v3_Advanced_Safety"]
    ELSE IF at_rr3 /\ ~contains_Partial(pos.comment)
    THEN LET vol == partial_volume(script, pos.volume)
             dealt == inp.deal_ok /\ vol > 0
             rest == IF dealt THEN pos.volume - vol ELSE pos.volume
             moved == inp.sltp_ok /\ rest > 0
         IN [left |-> IF rest = 0 THEN <<>>
                      ELSE <<[pos EXCEPT !.volume = rest,
                                         !.partials = IF dealt THEN pos.partials + 1 ELSE pos.partials,
                                         !.sl_at_entry = moved]>>,
             raised |-> FALSE]
    ELSE [left |-> <<pos>>, raised |-> FALSE]

\* manage_orders from position i on
RECURSIVE manage_from(_, _, _, _)
manage_from(script, positions, i, inp) ==
    IF i > Len(positions) THEN [positions |-> <<>>, raised |-> FALSE]
    ELSE LET turn == manage_position(script, positions[i], i \in inp.reached, inp)
         IN IF turn.raised
            THEN [positions |-> SubSeq(positions, i, Len(positions)), raised |-> TRUE]
            ELSE LET rest == manage_from(script, positions, i + 1, inp)
                 IN [positions |-> turn.left \o rest.positions, raised |-> rest.raised]

manage_orders(l, inp) == [l EXCEPT !.positions = manage_from(l.strategy, l.positions, 1, inp).positions]

\* run_strategy of trade_setup, trade_setup_v2 and trade_setup_v3
run_strategy(l, inp) ==
    IF l.weekday \in skipped_weekdays(l.strategy) THEN l
    ELSE IF hour_of(l.slot) = live_close_hour(l.strategy) /\ minute_of(l.slot) = 0
    THEN force_close(l)
    ELSE IF hour_of(l.slot) # live_start_hour(l.strategy) \/ minute_of(l.slot) # 0 THEN l
    ELSE daily_setup(l, inp)

\* run_strategy of trade_setup_v3_Advanced_Safety; slept is the sleep(60)
\* after the setup, in half minutes
run_strategy_advanced(l, sinp, minp) ==
    IF l.weekday \in skipped_weekdays(l.strategy) THEN [l |-> l, slept |-> 0]
    ELSE IF hour_of(l.slot) = live_close_hour(l.strategy) /\ minute_of(l.slot) = 0
    THEN [l |-> force_close(l), slept |-> 0]
    ELSE IF hour_of(l.slot) = live_start_hour(l.strategy) /\ minute_of(l.slot) = 0
    THEN IF sinp.side = "NODATA" THEN [l |-> daily_setup(l, sinp), slept |-> 0]
         ELSE [l |-> manage_orders(daily_setup(l, sinp), minp), slept |-> 2]
    ELSE [l |-> manage_orders(l, minp), slept |-> 0]

\* run_daily_setup of trade_setup_v4
run_daily_setup(l, sinp, minp) ==
    IF hour_of(l.slot) = live_close_hour(l.strategy) /\ minute_of(l.slot) = 0
    THEN force_close(l)
    ELSE IF hour_of(l.slot) # live_start_hour(l.strategy) \/ minute_of(l.slot) # 0
    THEN manage_orders(l, minp)
    ELSE daily_setup(l, sinp)

\* the next instant of PollSlots at least wait half minutes on
NextPoll(wd, slot, wait) ==
    LET at == slot + wait
        today == {s \in PollSlots : s >= at}
    IN IF today # {} THEN [weekday |-> wd, slot |-> SetMin(today)]
       ELSE [weekday |-> (wd + 1) % 7, slot |-> SetMin({s \in PollSlots : s + HalfMinutesPerDay >= at})]

\* the clock moves on to the next poll; the count of the day's orders starts
\* again with a new day
sleep_until(l, wait) ==
    LET n == NextPoll(l.weekday, l.slot, wait)
    IN [l EXCEPT !.weekday = n.weekday, !.slot = n.slot,
                 !.sent = IF n.weekday = l.weekday THEN l.sent ELSE NoneSent]

\* no get_drawdown_risk call yet
NotSized == [made |-> FALSE, balance |-> initial_balance, risk |-> base_risk]

\* One call of run_strategy / run_daily_setup and the wait for the next: the
\* main loop's sleep(30), or the next start of a script without a loop, half
\* a minute or a minute later.
poll ==
    /\ live.strategy \in LiveScripts
    /\ \E sinp \in (IF hour_of(live.slot) = live_start_hour(live.strategy) /\ minute_of(live.slot) = 0 THEN SetupInputs ELSE {NoSetupInput}),
          minp \in (IF live.strategy \in PollingScripts /\ live.positions # <<>> THEN ManageInputs ELSE {NoManageInput}),
          wait \in (IF live.strategy \in PollingScripts THEN {1} ELSE 1..2) :
          /\ live' = IF live.strategy = "trade_setup_v3_Advanced_Safety"
                     THEN LET r == run_strategy_advanced(live, sinp, minp)
                          IN sleep_until(r.l, r.slept + wait)
                     ELSE IF live.strategy = "trade_setup_v4"
                     THEN sleep_until(run_daily_setup(live, sinp, minp), wait)
                     ELSE sleep_until(run_strategy(live, sinp), wait)
    /\ UNCHANGED <<tester, df, dd_threshold, balance, max_balance, trades, pc, day_i, fibo_i, session, call, run_no, reports, sizing>>

\* the broker fills a pending order: it becomes a position with the order's
\* volume and comment and its stop one stop distance from the entry
order_fills ==
    /\ live.strategy \in LiveScripts
    /\ Len(live.positions) < MaxPositions
    /\ \E o \in live.orders :
          live' = [live EXCEPT !.orders = live.orders \ {o},
                               !.positions = Append(live.positions, [fibo |-> o.fibo, day |-> o.day, volume |-> o.volume, comment |-> o.comment, sl_at_entry |-> FALSE, partials |-> 0])]
    /\ UNCHANGED <<tester, df, dd_threshold, balance, max_balance, trades, pc, day_i, fibo_i, session, call, run_no, reports, sizing>>

\* the broker closes a position at its stop or at its target
position_closes ==
    /\ live.strategy \in LiveScripts
    /\ \E i \in 1..Len(live.positions) :
          live' = [live EXCEPT !.positions = SubSeq(live.positions, 1, i - 1) \o SubSeq(live.positions, i + 1, Len(live.positions))]
    /\ UNCHANGED <<tester, df, dd_threshold, balance, max_balance, trades, pc, day_i, fibo_i, session, call, run_no, reports, sizing>>

\* ORDER_TIME_DAY: the broker removes the pending orders of an earlier day
orders_expire ==
    /\ live.strategy \in LiveScripts
    /\ \E o \in live.orders : o.day # live.weekday
    /\ live' = [live EXCEPT !.orders = {o \in live.orders : o.day = live.weekday}]
    /\ UNCHANGED <<tester, df, dd_threshold, balance, max_balance, trades, pc, day_i, fibo_i, session, call, run_no, reports, sizing>>

LiveInit ==
    /\ tester = "Advanced"
    /\ df = <<>>
    /\ dd_threshold = -5
    /\ balance = initial_balance
    /\ max_balance = initial_balance
    /\ trades = <<>>
    /\ pc = "live"
    /\ day_i = 1
    /\ fibo_i = 0
    /\ session = NoSession
    /\ call = NoCall
    /\ run_no = 1
    /\ reports = <<>>
    /\ sizing = NoSizing
    /\ \E script \in LiveScripts :
          live = [strategy |-> script, weekday |-> 0, slot |-> 0, orders |-> {}, positions |-> <<>>, sent |-> NoneSent, sized |-> NotSized]

LiveNext == poll \/ order_fills \/ position_closes \/ orders_expire

LiveSpec == LiveInit /\ [][LiveNext]_vars

\* the clock of a live script stays on the instants of PollSlots
LiveTypeOK == live.strategy \in LiveScripts => (live.slot \in PollSlots /\ live.weekday \in 0..6 /\ Len(live.positions) <= MaxPositions)

-----------------------------------------------------------------------------
(* Claims about the live strategies.  A step is a call of run_strategy or   *)
(* run_daily_setup exactly when it moves the clock.                         *)

Polled == live'.slot # live.slot \/ live'.weekday # live.weekday

AtMidnight == hour_of(live.slot) = 0 /\ minute_of(live.slot) = 0

SomethingOpen == live.orders # {} \/ live.positions # <<>>

\* C34: in trade_setup and trade_setup_v2, a call of run_strategy at server
\* time 00:00 with positions or pending orders open cancels every pending
\* order and closes every position.
C34_ForceCloseAtMidnight ==
    [][(live.strategy \in {"trade_setup", "trade_setup_v2"} /\ Polled /\ AtMidnight /\ SomethingOpen)
          => (live'.orders = {} /\ live'.positions = <<>>)]_vars

\* what these two scripts do instead: no call of run_strategy closes a
\* position, at no time of the day
ScheduledNeverCloses ==
    [][(live.strategy \in {"trade_setup", "trade_setup_v2"} /\ Polled) => live'.positions = live.positions]_vars

\* the same call closes everything in trade_setup_v4
V4ClosesAtMidnight ==
    [][(live.strategy = "trade_setup_v4" /\ Polled /\ AtMidnight /\ SomethingOpen)
          => (live'.orders = {} /\ live'.positions = <<>>)]_vars

\* orders of yesterday's setup are still pending or have become positions
LeftFromYesterday ==
    LET yesterday == (live.weekday + 6) % 7
    IN \/ \E o \in live.orders : o.day = yesterday
       \/ \E i \in 1..Len(live.positions) : live.positions[i].day = yesterday

\* C35: in trade_setup_v3 and trade_setup_v3_Advanced_Safety, the call at
\* the midnight that follows a day whose 12:00 setup placed orders cancels
\* every pending order and closes every position, Wednesday's orders on
\* Thursday 00:00 and Friday's on Saturday 00:00 included.
C35_ClosedAtFollowingMidnight ==
    [][(live.strategy \in {"trade_setup_v3", "trade_setup_v3_Advanced_Safety"} /\ Polled /\ AtMidnight /\ LeftFromYesterday)
          => (live'.orders = {} /\ live'.positions = <<>>)]_vars

\* the midnight call does close everything on the days the weekday check
\* lets through
ClosedAtMidnightUnlessSkipped ==
    [][(live.strategy \in {"trade_setup_v3", "trade_setup_v3_Advanced_Safety"} /\ Polled /\ AtMidnight
          /\ live.weekday \notin skipped_weekdays(live.strategy))
          => (live'.orders = {} /\ live'.positions = <<>>)]_vars

\* Friday's orders in trade_setup_v3, which leaves out Thursday only
V3ClosesOnSaturday ==
    [][(live.strategy = "trade_setup_v3" /\ Polled /\ AtMidnight /\ live.weekday = 5 /\ LeftFromYesterday)
          => (live'.orders = {} /\ live'.positions = <<>>)]_vars

\* on a weekday the script leaves out, nothing but the broker touches what
\* is open
SkippedDayLeavesOpen ==
    [][(live.strategy \in {"trade_setup_v3", "trade_setup_v3_Advanced_Safety"} /\ Polled
          /\ live.weekday \in skipped_weekdays(live.strategy))
          => (live'.orders = live.orders /\ live'.positions = live.positions)]_vars

\* C36: in trade_setup_v3_Advanced_Safety and trade_setup_v4 the limit order
\* of each fibo level is sent at most once a day, however many polls fall
\* into the 12:00 minute.
C36_SetupOncePerDay ==
    live.strategy \in PollingScripts => \A f \in {618, 786} : live.sent[f] <= 1

\* sleep(60) after the setup does keep trade_setup_v3_Advanced_Safety to one
\* setup a day
AdvancedSetupOncePerDay ==
    live.strategy = "trade_setup_v3_Advanced_Safety" => \A f \in {618, 786} : live.sent[f] <= 1

\* a state in which that script has sent both orders of the day
AdvancedSetupSent ==
    live.strategy = "trade_setup_v3_Advanced_Safety" /\ \A f \in {618, 786} : live.sent[f] = 1

\* C37: in trade_setup_v3_Advanced_Safety and trade_setup_v4, manage_orders
\* closes half of a position at most once, over any sequence of polls,
\* prices and broker answers.
C37_PartialCloseOnce ==
    live.strategy \in PollingScripts => \A i \in 1..Len(live.positions) : live.positions[i].partials <= 1

\* the comment of a position never holds "Partial": the text goes into the
\* closing deal, the position keeps the comment of its order
PositionCommentNeverPartial ==
    live.strategy \in PollingScripts => \A i \in 1..Len(live.positions) : ~contains_Partial(live.positions[i].comment)

\* once the stop is at the entry, manage_orders leaves the position alone
StopAtEntryEndsManagement ==
    [][(live.strategy \in PollingScripts /\ Polled /\ \A i \in 1..Len(live.positions) : live.positions[i].sl_at_entry)
          => live'.positions \in {live.positions, <<>>}]_vars

\* a position after its partial close with its stop at the entry
PartialAndBreakEven ==
    live.strategy \in PollingScripts /\ \E i \in 1..Len(live.positions) : live.positions[i].partials = 1 /\ live.positions[i].sl_at_entry

\* the backtest's rule with the peak fixed at the initial balance:
\* (balance - peak) / peak <= dd_threshold gives half the risk
BacktestRiskAtFixedPeak(bal) == risk_percent_of(bal, initial_balance, -5)

\* C38: with the peak at the initial balance, get_drawdown_risk of
\* trade_setup_v3_Advanced_Safety and trade_setup_v4 gives the risk of the
\* backtest's half-risk rule for every balance, 95% of the peak included.
C38_LiveRiskIsBacktestRisk ==
    (live.strategy \in PollingScripts /\ live.sized.made)
        => live.sized.risk = BacktestRiskAtFixedPeak(live.sized.balance)

\* the two rules agree on every balance but the one at the threshold
LiveRiskIsBacktestRiskOffThreshold ==
    (live.strategy \in PollingScripts /\ live.sized.made /\ live.sized.balance * 100 # initial_balance * 95)
        => live.sized.risk = BacktestRiskAtFixedPeak(live.sized.balance)

\* a setup sized below the threshold
SizedBelowThreshold ==
    live.strategy \in PollingScripts /\ live.sized.made /\ live.sized.balance = 94999 /\ live.sized.risk = half_risk

=============================================================================
